---------------------------- MODULE Spec2Model ----------------------------
(***************************************************************************)
(* Bitfreeze: the deposit / balance / withdrawal ledger of the three       *)
(* server variants of the repository.                                      *)
(*                                                                         *)
(*   src/Index.js          node-persist server (users, deposits,           *)
(*                         withdrawals and meta are four stored items,     *)
(*                         each read and written whole)                    *)
(*   src/index.js          MongoDB / Telegram server                       *)
(*   src/unnamed/part_000  MongoDB server without admin workflow           *)
(*                                                                         *)
(* A handler of src/Index.js is a sequence of steps, one per storage       *)
(* access (every getItem / setItem is awaited, so another handler can run  *)
(* between two of them).  node-persist parses the stored JSON on every     *)
(* getItem, so what a handler holds is a private copy of the item.         *)
(***************************************************************************)
EXTENDS Integers, Sequences, FiniteSets, TLC

\* ------------------------------------------------------------------ bounds
MaxOps == 2          \* requests and job runs started in one behaviour
MaxDeposits == 3     \* deposit ids 1..MaxDeposits
MaxWithdrawals == 2  \* withdrawal ids 1..MaxWithdrawals
MaxTicks == 2        \* clock advances in one behaviour
MaxMOps == 3         \* src/index.js: requests and bot callbacks in one behaviour
MaxPayments == 2     \* src/index.js: Payment documents created
MaxMWithdrawals == 2 \* src/index.js: Withdrawal documents created
MaxMTicks == 4       \* src/index.js: half days that pass
MaxZOps == 3         \* part_000: requests in one behaviour
MaxZWithdrawals == 2 \* part_000: Withdrawal documents created

\* ------------------------------------------------- src/Index.js: constants
Emails == {"a", "b"}
Threads == {1, 2}
DepIds == 1..MaxDeposits
WdIds == 1..MaxWithdrawals

REFERRAL_RULES ==
  << [min |-> 8000, reward |-> 500], [min |-> 6000, reward |-> 350],
     [min |-> 4000, reward |-> 250], [min |-> 2000, reward |-> 150],
     [min |-> 1000, reward |-> 100], [min |-> 500, reward |-> 50] >>

FRIDGES ==
  << [id |-> "2ft", price |-> 500, dailyEarn |-> 25],
     [id |-> "4ft", price |-> 1000, dailyEarn |-> 55],
     [id |-> "6ft", price |-> 2000, dailyEarn |-> 100],
     [id |-> "8ft", price |-> 4000, dailyEarn |-> 150],
     [id |-> "10ft", price |-> 6000, dailyEarn |-> 250],
     [id |-> "12ft", price |-> 8000, dailyEarn |-> 350] >>

MinWithdrawal == 200
GuardHours == 20

\* A missing key of a stored object, and JavaScript's null / undefined, are
\* the records and values below ("" for a null string, 0 for a null id,
\* -1 for an undefined timestamp).
NoUser ==
  [email |-> "", phone |-> "", balance |-> 0, fridges |-> <<>>,
   refCode |-> "", referredBy |-> ""]
NoDep ==
  [id |-> 0, user |-> "", amount |-> 0, phone |-> "", status |-> "",
   darajaRef |-> 0, confirmedAt |-> -1]
NoWd == [id |-> 0, user |-> "", amount |-> 0, phone |-> "", status |-> ""]

EmptyUsers == [e \in Emails |-> NoUser]
EmptyDeposits == [d \in DepIds |-> NoDep]
EmptyWithdrawals == [w \in WdIds |-> NoWd]

VARIABLES
  \* src/Index.js, the four stored items
  users, deposits, withdrawals, meta,
  \* src/Index.js, the handlers in flight and the last response sent
  th, last,
  \* src/Index.js, environment: configuration, whether the clients send one
  \* request at a time, clock, requests started, ids handed out
  darajaConfigured, SIMULATE_MPESA, serial, now, ticks, ops, nextDep, nextWd,
  \* history: how many times a balance was credited for each deposit id and
  \* debited for each withdrawal id
  credited, debited,
  \* src/index.js: the collections, the FRIDGES table, the clock, requests
  \* started, ids handed out, the last response sent
  mUsers, offerCodes, payments, mWithdrawals, catalog, mNow, mTicks, mOps,
  nextPay, nextMWd, mLast,
  \* history: how many times a run of runDailyEarnings added the price of
  \* an offer holding to each account
  payouts,
  \* src/index.js: the /api/offer/redeem handlers in flight
  rd,
  \* src/unnamed/part_000: the collections, requests started, the last
  \* response sent
  zUsers, zWithdrawals, zOps, zLast

storeVars == <<users, deposits, withdrawals, meta>>
envVars == <<darajaConfigured, SIMULATE_MPESA, serial, now, ticks>>
pvars ==
  <<users, deposits, withdrawals, meta, th, last, darajaConfigured,
    SIMULATE_MPESA, serial, now, ticks, ops, nextDep, nextWd, credited,
    debited>>

mvars ==
  <<mUsers, offerCodes, payments, mWithdrawals, catalog, mNow, mTicks, mOps,
    nextPay, nextMWd, mLast, payouts, rd>>
zvars == <<zUsers, zWithdrawals, zOps, zLast>>

vars == <<pvars, mvars, zvars>>

\* ------------------------------------------------- src/Index.js: helpers
IdleTh ==
  [op |-> "idle", pc |-> "idle", email |-> "", id |-> 0, amount |-> 0,
   phone |-> "", ref |-> "", st |-> "", hasRef |-> FALSE, credit |-> 0,
   ret |-> "",
   u |-> NoUser, um |-> EmptyUsers, dm |-> EmptyDeposits,
   wm |-> EmptyWithdrawals, snap |-> EmptyUsers, keys |-> <<>>]

NoResponse == [op |-> "", email |-> "", id |-> 0, res |-> ""]

Idle(t) == th[t].pc = "idle"
Quiescent == \A t \in Threads : Idle(t)

\* makeId(6) of the registration, a value no email equals
RefCodeOf(email) == "rc" \o email

\* Object.keys(users), in insertion order
KeysOf(um) ==
  LET ks == <<"a", "b">>
  IN SelectSeq(ks, LAMBDA e : um[e].email # "")

\* FRIDGES.find(f => f.id === fridgeId); price 0 and id "" when none
NoFridge == [id |-> "", price |-> 0, dailyEarn |-> 0]
FridgeById(fid) ==
  LET hits == SelectSeq(FRIDGES, LAMBDA f : f.id = fid)
  IN IF hits = <<>> THEN NoFridge ELSE Head(hits)

\* REFERRAL_RULES.find(r => amount >= r.min); reward 0 when none
ReferralReward(amount) ==
  LET hits == SelectSeq(REFERRAL_RULES, LAMBDA r : amount >= r.min)
  IN IF hits = <<>> THEN 0 ELSE Head(hits).reward

\* the loop of applyReferral over Object.keys(users)
FindReferrer(um, ref) ==
  LET hits == SelectSeq(KeysOf(um),
                        LAMBDA e : um[e].refCode = ref \/ um[e].email = ref)
  IN IF hits = <<>> THEN NoUser ELSE um[Head(hits)]

\* Object.values(deposits).find(d => d.darajaRef && d.darajaRef === checkoutId)
FindByRef(dm, checkoutId) ==
  LET hits == {d \in DepIds : dm[d].id # 0 /\ dm[d].darajaRef # 0
                               /\ dm[d].darajaRef = checkoutId}
  IN IF hits = {} THEN NoDep
     ELSE dm[CHOOSE d \in hits : \A e \in hits : d <= e]

\* the balance guard left out
InsufficientBalanceMut(u, amount) == FALSE
\* (user.balance || 0) < price, the guard of buy, withdraw and approve
InsufficientBalance(u, amount) == u.balance < amount

\* rec.status === 'confirmed', the guard of the admin confirm
AlreadyConfirmed(rec) == rec.status = "confirmed"

\* the status guard left out
AlreadyProcessedMut(w) == FALSE
\* w.status !== 'pending', the guard of approve and reject
AlreadyProcessed(w) == w.status # "pending"

\* the credit of the daily job for one user: sum of cfg.dailyEarn
RECURSIVE CreditOf(_)
CreditOf(fs) ==
  IF fs = <<>> THEN 0
  ELSE FridgeById(Head(fs)).dailyEarn + CreditOf(Tail(fs))

\* ------------------------------------------- src/Index.js: request plumbing
\* A request may start on a free handler slot; when the clients are serial,
\* only after the previous request was answered.
CanStart(t) ==
  /\ Idle(t)
  /\ ops < MaxOps
  /\ serial => (t = 1 /\ Quiescent)

\* the handler goes on to its next await
Goto(t, rec) ==
  /\ th' = [th EXCEPT ![t] = rec]
  /\ UNCHANGED <<mvars, zvars>>

\* res.json(...): the handler is done
Answer(t, op, email, id, res) ==
  /\ th' = [th EXCEPT ![t] = IdleTh]
  /\ last' = [op |-> op, email |-> email, id |-> id, res |-> res]
  /\ UNCHANGED <<mvars, zvars>>

\* the message a handler sends when it runs to its end
FinalRes(op) ==
  CASE op = "buy" -> "Bought"
    [] op = "deposit" -> "Deposit simulated and confirmed"
    [] op = "callback" -> "ok - confirmed"
    [] op = "confirm" -> "Deposit confirmed"
    [] OTHER -> "done"

\* ------------------------------------------------ src/Index.js: putUser
\* const users = await getUsersObj(); users[u.email] = u;
PutRead(t) ==
  /\ th[t].pc = "PutRead"
  /\ Goto(t, [th[t] EXCEPT !.pc = "PutWrite",
                           !.um = [users EXCEPT ![th[t].u.email] = th[t].u]])
  /\ UNCHANGED <<storeVars, envVars, last, ops, nextDep, nextWd, credited, debited>>

\* await saveUsersObj(users); then the caller goes on
PutWrite(t) ==
  /\ th[t].pc = "PutWrite"
  /\ users' = th[t].um
  /\ credited' = IF th[t].credit = 0 THEN credited
                 ELSE [credited EXCEPT ![th[t].credit] = @ + 1]
  /\ debited' = IF th[t].op = "approve"
                  THEN [debited EXCEPT ![th[t].id] = @ + 1]
                  ELSE debited
  /\ IF th[t].ret = "respond"
       THEN Answer(t, th[t].op, th[t].email, th[t].id, FinalRes(th[t].op))
       ELSE /\ Goto(t, [th[t] EXCEPT !.pc = th[t].ret, !.ret = "",
                                     !.credit = 0, !.um = EmptyUsers])
            /\ UNCHANGED last
  /\ UNCHANGED <<deposits, withdrawals, meta, envVars, ops, nextDep, nextWd>>

\* ------------------------------------------------ src/Index.js: register
NewUser(email, phone, ref) ==
  [email |-> email, phone |-> phone, balance |-> 0, fridges |-> <<>>,
   refCode |-> RefCodeOf(email), referredBy |-> ref]

\* POST /api/register up to bcrypt.hash: reads the users object
StartRegister(t, email, phone, ref) ==
  /\ CanStart(t)
  /\ ops' = ops + 1
  /\ IF users[email].email # ""
       THEN Answer(t, "register", email, 0, "User exists")
       ELSE /\ Goto(t, [IdleTh EXCEPT
                          !.op = "register", !.pc = "RegWrite",
                          !.email = email,
                          !.um = [users EXCEPT
                                    ![email] = NewUser(email, phone, ref)]])
            /\ UNCHANGED last
  /\ UNCHANGED <<storeVars, envVars, nextDep, nextWd, credited, debited>>

\* users[email] = user; await saveUsersObj(users)
RegWrite(t) ==
  /\ th[t].pc = "RegWrite"
  /\ users' = th[t].um
  /\ Answer(t, "register", th[t].email, 0, "Registered")
  /\ UNCHANGED <<deposits, withdrawals, meta, envVars, ops, nextDep, nextWd,
                 credited, debited>>

\* a purchase that appends the holding and takes nothing from the balance
StartBuyMut(t, email, fridgeId) ==
  /\ CanStart(t)
  /\ ops' = ops + 1
  /\ LET item == FridgeById(fridgeId)
         user == users[email]
     IN IF item.id = ""
          THEN Answer(t, "buy", email, 0, "Invalid fridge")
          ELSE IF user.email = ""
          THEN Answer(t, "buy", email, 0, "User not found")
          ELSE IF InsufficientBalance(user, item.price)
          THEN Answer(t, "buy", email, 0, "Insufficient balance")
          ELSE /\ Goto(t, [IdleTh EXCEPT
                             !.op = "buy", !.pc = "PutRead",
                             !.ret = "respond", !.email = email,
                             !.u = [user EXCEPT
                                      !.fridges = Append(@, item.id)]])
               /\ UNCHANGED last
  /\ UNCHANGED <<storeVars, envVars, nextDep, nextWd, credited, debited>>

\* ------------------------------------------------ src/Index.js: buy
\* POST /api/buy up to putUser
StartBuy(t, email, fridgeId) ==
  /\ CanStart(t)
  /\ ops' = ops + 1
  /\ LET item == FridgeById(fridgeId)
         user == users[email]
     IN IF item.id = ""
          THEN Answer(t, "buy", email, 0, "Invalid fridge")
          ELSE IF user.email = ""
          THEN Answer(t, "buy", email, 0, "User not found")
          ELSE IF InsufficientBalance(user, item.price)
          THEN Answer(t, "buy", email, 0, "Insufficient balance")
          ELSE /\ Goto(t, [IdleTh EXCEPT
                             !.op = "buy", !.pc = "PutRead",
                             !.ret = "respond", !.email = email,
                             !.u = [user EXCEPT
                                      !.balance = @ - item.price,
                                      !.fridges = Append(@, item.id)]])
               /\ UNCHANGED last
  /\ UNCHANGED <<storeVars, envVars, nextDep, nextWd, credited, debited>>

\* ------------------------------------------------ src/Index.js: applyReferral
\* const user = await findUserByEmail(userEmail); the handler's email field
\* is the depositor
RefFind(t) ==
  /\ th[t].pc = "RefFind"
  /\ LET user == users[th[t].email]
     IN IF user.email = "" \/ user.referredBy = ""
          THEN Answer(t, th[t].op, th[t].email, th[t].id, FinalRes(th[t].op))
          ELSE /\ Goto(t, [th[t] EXCEPT !.pc = "RefScan",
                                        !.ref = user.referredBy])
               /\ UNCHANGED last
  /\ UNCHANGED <<storeVars, envVars, ops, nextDep, nextWd, credited, debited>>

\* const users = await getUsersObj(); find refUser; pick the rule; credit
RefScan(t) ==
  /\ th[t].pc = "RefScan"
  /\ LET refUser == FindReferrer(users, th[t].ref)
         reward == ReferralReward(th[t].amount)
     IN IF refUser.email = "" \/ reward = 0
          THEN Answer(t, th[t].op, th[t].email, th[t].id, FinalRes(th[t].op))
          ELSE /\ Goto(t, [th[t] EXCEPT
                             !.pc = "PutRead", !.ret = "respond",
                             !.u = [refUser EXCEPT !.balance = @ + reward]])
               /\ UNCHANGED last
  /\ UNCHANGED <<storeVars, envVars, ops, nextDep, nextWd, credited, debited>>

\* ------------------------------------------------ src/Index.js: deposit
\* POST /api/deposit up to recordDeposit.  stk is what darajaStkPush does
\* when Daraja is configured: "ok" (a checkout id comes back) or "throw".
StartDeposit(t, email, amount, phone, stk) ==
  /\ CanStart(t)
  /\ ops' = ops + 1
  /\ LET user == users[email]
         pushed == darajaConfigured /\ stk = "ok"
     IN IF amount <= 0
          THEN /\ Answer(t, "deposit", email, 0, "Amount must be > 0")
               /\ UNCHANGED nextDep
          ELSE IF phone = ""
          THEN /\ Answer(t, "deposit", email, 0, "Phone required")
               /\ UNCHANGED nextDep
          ELSE IF user.email = ""
          THEN /\ Answer(t, "deposit", email, 0, "User not found")
               /\ UNCHANGED nextDep
          ELSE /\ nextDep <= MaxDeposits
               /\ nextDep' = nextDep + 1
               /\ Goto(t, [IdleTh EXCEPT
                             !.op = "deposit", !.pc = "RecRead",
                             !.email = email, !.amount = amount,
                             !.phone = phone, !.id = nextDep, !.u = user,
                             !.hasRef = pushed,
                             !.st = IF pushed THEN "pending"
                                    ELSE IF SIMULATE_MPESA THEN "confirmed"
                                    ELSE "pending"])
               /\ UNCHANGED last
  /\ UNCHANGED <<storeVars, envVars, nextWd, credited, debited>>

\* recordDeposit: const deposits = await getDeposits(); deposits[id] = {...}
RecRead(t) ==
  /\ th[t].pc = "RecRead"
  /\ LET rec == [id |-> th[t].id, user |-> th[t].email,
                 amount |-> th[t].amount, phone |-> th[t].phone,
                 status |-> th[t].st,
                 darajaRef |-> IF th[t].hasRef THEN th[t].id ELSE 0,
                 confirmedAt |-> -1]
     IN Goto(t, [th[t] EXCEPT !.pc = "RecWrite",
                              !.dm = [deposits EXCEPT ![th[t].id] = rec]])
  /\ UNCHANGED <<storeVars, envVars, last, ops, nextDep, nextWd, credited, debited>>

\* recordDeposit: await saveDeposits(deposits); then, for a simulated
\* deposit, user.balance += amount and putUser(user)
RecWrite(t) ==
  /\ th[t].pc = "RecWrite"
  /\ deposits' = th[t].dm
  /\ IF th[t].st = "confirmed"
       THEN /\ Goto(t, [th[t] EXCEPT
                          !.pc = "PutRead", !.ret = "RefFind",
                          !.credit = th[t].id, !.dm = EmptyDeposits,
                          !.u = [th[t].u EXCEPT
                                   !.balance = @ + th[t].amount]])
            /\ UNCHANGED last
       ELSE Answer(t, "deposit", th[t].email, th[t].id,
                   IF th[t].hasRef THEN "STK Push initiated"
                   ELSE "Deposit recorded as pending")
  /\ UNCHANGED <<users, withdrawals, meta, envVars, ops, nextDep, nextWd,
                 credited, debited>>

\* ------------------------------------------------ src/Index.js: M-PESA callback
\* POST /api/mpesa/callback up to saveDeposits; checkoutId 0 is a body
\* without a checkout id
StartCallback(t, checkoutId, success) ==
  /\ CanStart(t)
  /\ ops' = ops + 1
  /\ LET found == FindByRef(deposits, checkoutId)
     IN IF checkoutId = 0
          THEN Answer(t, "callback", "", 0, "ignored - no checkout id")
          ELSE IF found.id = 0
          THEN Answer(t, "callback", "", 0, "no matching deposit")
          ELSE /\ Goto(t, [IdleTh EXCEPT
                 !.op = "callback",
                 !.pc = IF success THEN "CbWrite" ELSE "CbFailWrite",
                 !.id = found.id, !.email = found.user,
                 !.amount = found.amount,
                 !.dm = [deposits EXCEPT ![found.id] =
                           IF success
                             THEN [found EXCEPT !.status = "confirmed",
                                                !.confirmedAt = now]
                             ELSE [found EXCEPT !.status = "failed"]]])
               /\ UNCHANGED last
  /\ UNCHANGED <<storeVars, envVars, nextDep, nextWd, credited, debited>>

\* success branch: await saveDeposits(deposits)
CbWrite(t) ==
  /\ th[t].pc = "CbWrite"
  /\ deposits' = th[t].dm
  /\ Goto(t, [th[t] EXCEPT !.pc = "CbFindUser", !.dm = EmptyDeposits])
  /\ UNCHANGED <<users, withdrawals, meta, envVars, last, ops, nextDep,
                 nextWd, credited, debited>>

\* const user = await findUserByEmail(found.user); if (user) credit
CbFindUser(t) ==
  /\ th[t].pc = "CbFindUser"
  /\ LET user == users[th[t].email]
     IN IF user.email = ""
          THEN Answer(t, "callback", th[t].email, th[t].id, "ok - confirmed")
          ELSE /\ Goto(t, [th[t] EXCEPT
                             !.pc = "PutRead", !.ret = "RefFind",
                             !.credit = th[t].id,
                             !.u = [user EXCEPT
                                      !.balance = @ + th[t].amount]])
               /\ UNCHANGED last
  /\ UNCHANGED <<storeVars, envVars, ops, nextDep, nextWd, credited, debited>>

\* the non-success branch crediting the owner as the success branch does
CbFailWriteMut(t) ==
  /\ th[t].pc = "CbFailWrite"
  /\ deposits' = th[t].dm
  /\ users' = [e \in Emails |->
                 IF e = th[t].email
                   THEN [users[e] EXCEPT !.balance = @ + th[t].amount]
                   ELSE users[e]]
  /\ Answer(t, "callback", th[t].email, th[t].id, "not success")
  /\ UNCHANGED <<withdrawals, meta, envVars, ops, nextDep, nextWd,
                 credited, debited>>

\* non-success branch: found.status = 'failed'; await saveDeposits(deposits)
CbFailWrite(t) ==
  /\ th[t].pc = "CbFailWrite"
  /\ deposits' = th[t].dm
  /\ Answer(t, "callback", th[t].email, th[t].id, "not success")
  /\ UNCHANGED <<users, withdrawals, meta, envVars, ops, nextDep, nextWd,
                 credited, debited>>

\* ------------------------------------------------ src/Index.js: admin confirm
\* POST /api/admin/deposits/confirm up to saveDeposits
StartConfirm(t, depositId) ==
  /\ CanStart(t)
  /\ ops' = ops + 1
  /\ LET rec == deposits[depositId]
     IN IF rec.id = 0
          THEN Answer(t, "confirm", "", depositId, "Deposit not found")
          ELSE IF AlreadyConfirmed(rec)
          THEN Answer(t, "confirm", rec.user, depositId, "Already confirmed")
          ELSE /\ Goto(t, [IdleTh EXCEPT
                 !.op = "confirm", !.pc = "AcWrite", !.id = depositId,
                 !.email = rec.user, !.amount = rec.amount,
                 !.dm = [deposits EXCEPT ![depositId] =
                           [rec EXCEPT !.status = "confirmed",
                                       !.confirmedAt = now]]])
               /\ UNCHANGED last
  /\ UNCHANGED <<storeVars, envVars, nextDep, nextWd, credited, debited>>

\* await saveDeposits(deposits)
AcWrite(t) ==
  /\ th[t].pc = "AcWrite"
  /\ deposits' = th[t].dm
  /\ Goto(t, [th[t] EXCEPT !.pc = "AcFindUser", !.dm = EmptyDeposits])
  /\ UNCHANGED <<users, withdrawals, meta, envVars, last, ops, nextDep,
                 nextWd, credited, debited>>

\* const user = await findUserByEmail(rec.user); credit
AcFindUser(t) ==
  /\ th[t].pc = "AcFindUser"
  /\ LET user == users[th[t].email]
     IN IF user.email = ""
          THEN Answer(t, "confirm", th[t].email, th[t].id, "User not found")
          ELSE /\ Goto(t, [th[t] EXCEPT
                             !.pc = "PutRead", !.ret = "RefFind",
                             !.credit = th[t].id,
                             !.u = [user EXCEPT
                                      !.balance = @ + th[t].amount]])
               /\ UNCHANGED last
  /\ UNCHANGED <<storeVars, envVars, ops, nextDep, nextWd, credited, debited>>

\* ------------------------------------------------ src/Index.js: withdraw
\* (a, b) => b.confirmedAt - a.confirmedAt, NaN (a missing confirmedAt)
\* counting as 0
CmpConfirmedAt(a, b) ==
  IF a.confirmedAt = -1 \/ b.confirmedAt = -1 THEN 0
  ELSE b.confirmedAt - a.confirmedAt

Reverse(s) == [i \in 1..Len(s) |-> s[Len(s) + 1 - i]]

\* Array.prototype.sort on a short array: the length of the initial run
RECURSIVE RunLen(_, _, _)
RunLen(s, i, desc) ==
  IF i > Len(s) THEN Len(s)
  ELSE LET o == CmpConfirmedAt(s[i], s[i - 1])
       IN IF desc
            THEN IF o >= 0 THEN i - 1 ELSE RunLen(s, i + 1, desc)
            ELSE IF o < 0 THEN i - 1 ELSE RunLen(s, i + 1, desc)

\* ... the binary search for the place of pivot in the sorted prefix
RECURSIVE BinPos(_, _, _, _)
BinPos(s, pivot, left, right) ==
  IF left >= right THEN left
  ELSE LET mid == left + ((right - left) \div 2)
       IN IF CmpConfirmedAt(pivot, s[mid + 1]) < 0
            THEN BinPos(s, pivot, left, mid)
            ELSE BinPos(s, pivot, mid + 1, right)

\* ... the binary insertion of s[k + 1 ..] into the sorted prefix s[1 .. k]
RECURSIVE BinInsert(_, _)
BinInsert(s, k) ==
  IF k >= Len(s) THEN s
  ELSE LET pivot == s[k + 1]
           pos == BinPos(s, pivot, 0, k)
           moved == SubSeq(s, 1, pos) \o <<pivot>> \o SubSeq(s, pos + 1, k)
                      \o SubSeq(s, k + 2, Len(s))
       IN BinInsert(moved, k + 1)

SortByConfirmedAt(s) ==
  IF Len(s) < 2 THEN s
  ELSE LET desc == CmpConfirmedAt(s[2], s[1]) < 0
           run == RunLen(s, 3, desc)
           first == IF desc
                      THEN Reverse(SubSeq(s, 1, run)) \o SubSeq(s, run + 1, Len(s))
                      ELSE s
       IN BinInsert(first, run)

\* Object.values(deposits), in insertion order
DepositValues(dm) ==
  LET RECURSIVE From(_)
      From(d) == IF d > MaxDeposits THEN <<>>
                 ELSE IF dm[d].id = 0 THEN From(d + 1)
                 ELSE <<dm[d]>> \o From(d + 1)
  IN From(1)

\* the phone of the user's confirmed deposit that sorts first; "" when none
UsedPhone(dm, email) ==
  LET userDeposits ==
        SortByConfirmedAt(SelectSeq(DepositValues(dm),
          LAMBDA d : d.user = email /\ d.status = "confirmed"))
  IN IF userDeposits = <<>> THEN "" ELSE Head(userDeposits).phone

\* usedPhone !== phone, the phone check of the withdrawal request
PhoneMismatch(usedPhone, phone) == usedPhone # phone

\* POST /api/withdraw up to getDeposits
StartWithdraw(t, email, amount, phone) ==
  /\ CanStart(t)
  /\ ops' = ops + 1
  /\ LET user == users[email]
     IN IF amount <= 0
          THEN /\ Answer(t, "withdraw", email, 0, "Amount must be > 0")
               /\ UNCHANGED nextWd
          ELSE IF phone = ""
          THEN /\ Answer(t, "withdraw", email, 0, "Phone required")
               /\ UNCHANGED nextWd
          ELSE IF amount < MinWithdrawal
          THEN /\ Answer(t, "withdraw", email, 0, "Minimum withdrawal is KES 200")
               /\ UNCHANGED nextWd
          ELSE IF user.email = ""
          THEN /\ Answer(t, "withdraw", email, 0, "User not found")
               /\ UNCHANGED nextWd
          ELSE IF InsufficientBalance(user, amount)
          THEN /\ Answer(t, "withdraw", email, 0, "Insufficient account balance")
               /\ UNCHANGED nextWd
          ELSE /\ nextWd <= MaxWithdrawals
               /\ nextWd' = nextWd + 1
               /\ Goto(t, [IdleTh EXCEPT
                             !.op = "withdraw", !.pc = "WdDeps",
                             !.email = email, !.amount = amount,
                             !.phone = phone, !.id = nextWd])
               /\ UNCHANGED last
  /\ UNCHANGED <<storeVars, envVars, nextDep, credited, debited>>

\* const deposits = await getDeposits(); the deposit-phone check
WdDeps(t) ==
  /\ th[t].pc = "WdDeps"
  /\ LET usedPhone == UsedPhone(deposits, th[t].email)
     IN IF usedPhone = ""
          THEN Answer(t, "withdraw", th[t].email, 0,
                      "No deposit phone recorded for this account")
          ELSE IF PhoneMismatch(usedPhone, th[t].phone)
          THEN Answer(t, "withdraw", th[t].email, 0,
                      "Withdrawals allowed only from the phone used to deposit")
          ELSE /\ Goto(t, [th[t] EXCEPT !.pc = "WdRead"])
               /\ UNCHANGED last
  /\ UNCHANGED <<storeVars, envVars, ops, nextDep, nextWd, credited, debited>>

\* const withdrawals = await getWithdrawals(); withdrawals[id] = {...}
WdRead(t) ==
  /\ th[t].pc = "WdRead"
  /\ LET rec == [id |-> th[t].id, user |-> th[t].email,
                 amount |-> th[t].amount, phone |-> th[t].phone,
                 status |-> "pending"]
     IN Goto(t, [th[t] EXCEPT !.pc = "WdWrite",
                              !.wm = [withdrawals EXCEPT ![th[t].id] = rec]])
  /\ UNCHANGED <<storeVars, envVars, last, ops, nextDep, nextWd, credited, debited>>

\* a save of the request that also takes the amount from its owner
WdWriteMut(t) ==
  /\ th[t].pc = "WdWrite"
  /\ withdrawals' = th[t].wm
  /\ users' = [users EXCEPT ![th[t].email].balance = @ - th[t].amount]
  /\ Answer(t, "withdraw", th[t].email, th[t].id, "Withdrawal request created")
  /\ UNCHANGED <<deposits, meta, envVars, ops, nextDep, nextWd,
                 credited, debited>>

\* await saveWithdrawals(withdrawals); res.json(...)
WdWrite(t) ==
  /\ th[t].pc = "WdWrite"
  /\ withdrawals' = th[t].wm
  /\ Answer(t, "withdraw", th[t].email, th[t].id, "Withdrawal request created")
  /\ UNCHANGED <<users, deposits, meta, envVars, ops, nextDep, nextWd,
                 credited, debited>>

\* ------------------------------------------------ src/Index.js: admin approve
\* POST /api/admin/withdraws/approve up to findUserByEmail
StartApprove(t, id) ==
  /\ CanStart(t)
  /\ ops' = ops + 1
  /\ LET w == withdrawals[id]
     IN IF w.id = 0
          THEN Answer(t, "approve", "", id, "Withdraw request not found")
          ELSE IF AlreadyProcessed(w)
          THEN Answer(t, "approve", w.user, id, "Already processed")
          ELSE /\ Goto(t, [IdleTh EXCEPT
                             !.op = "approve", !.pc = "ApFind", !.id = id,
                             !.email = w.user, !.amount = w.amount,
                             !.wm = withdrawals])
               /\ UNCHANGED last
  /\ UNCHANGED <<storeVars, envVars, nextDep, nextWd, credited, debited>>

\* const user = await findUserByEmail(w.user); the balance check; the debit
ApFind(t) ==
  /\ th[t].pc = "ApFind"
  /\ LET user == users[th[t].email]
     IN IF user.email = ""
          THEN Answer(t, "approve", th[t].email, th[t].id, "User not found")
          ELSE IF InsufficientBalance(user, th[t].amount)
          THEN Answer(t, "approve", th[t].email, th[t].id, "Insufficient balance")
          ELSE /\ Goto(t, [th[t] EXCEPT
                             !.pc = "PutRead", !.ret = "ApWrite",
                             !.u = [user EXCEPT
                                      !.balance = @ - th[t].amount]])
               /\ UNCHANGED last
  /\ UNCHANGED <<storeVars, envVars, ops, nextDep, nextWd, credited, debited>>

\* w.status = 'approved'; await saveWithdrawals(withdrawals)
ApWrite(t) ==
  /\ th[t].pc = "ApWrite"
  /\ withdrawals' = [th[t].wm EXCEPT ![th[t].id].status = "approved"]
  /\ Answer(t, "approve", th[t].email, th[t].id, "Withdrawal approved")
  /\ UNCHANGED <<users, deposits, meta, envVars, ops, nextDep, nextWd,
                 credited, debited>>

\* ------------------------------------------------ src/Index.js: admin reject
\* POST /api/admin/withdraws/reject up to saveWithdrawals
StartReject(t, id) ==
  /\ CanStart(t)
  /\ ops' = ops + 1
  /\ LET w == withdrawals[id]
     IN IF w.id = 0
          THEN Answer(t, "reject", "", id, "Withdraw request not found")
          ELSE IF AlreadyProcessed(w)
          THEN Answer(t, "reject", w.user, id, "Already processed")
          ELSE /\ Goto(t, [IdleTh EXCEPT
                             !.op = "reject", !.pc = "RjWrite", !.id = id,
                             !.email = w.user, !.amount = w.amount,
                             !.wm = [withdrawals EXCEPT
                                       ![id].status = "rejected"]])
               /\ UNCHANGED last
  /\ UNCHANGED <<storeVars, envVars, nextDep, nextWd, credited, debited>>

\* await saveWithdrawals(withdrawals); the user is read only for the mail
RjWrite(t) ==
  /\ th[t].pc = "RjWrite"
  /\ withdrawals' = th[t].wm
  /\ Answer(t, "reject", th[t].email, th[t].id, "Withdrawal rejected")
  /\ UNCHANGED <<users, deposits, meta, envVars, ops, nextDep, nextWd,
                 credited, debited>>

\* ------------------------------------------------ src/Index.js: daily job
\* the body of the for loop up to the next putUser: skips the users without
\* fridges or credit; <<rest of the keys, user to write>> or <<..., NoUser>>
RECURSIVE CronSkip(_, _)
CronSkip(snap, keys) ==
  IF keys = <<>> THEN <<keys, NoUser>>
  ELSE LET u == snap[Head(keys)]
           credit == CreditOf(u.fridges)
       IN IF u.fridges = <<>> \/ credit <= 0
            THEN CronSkip(snap, Tail(keys))
            ELSE <<Tail(keys), [u EXCEPT !.balance = @ + credit]>>

\* the guard left out
WithinGuardMut(t, lastRun) == FALSE
\* Date.now() - lastRun < (20 * 60 * 60 * 1000)
WithinGuard(t, lastRun) == t - lastRun < GuardHours

\* the job up to getUsersObj: const meta = await getMeta(); the 20 h guard
StartCron(t) ==
  /\ CanStart(t)
  /\ ops' = ops + 1
  /\ IF WithinGuard(now, meta.lastDailyRun)
       THEN Answer(t, "cron", "", 0, "skipped")
       ELSE /\ Goto(t, [IdleTh EXCEPT !.op = "cron", !.pc = "CronUsers"])
            /\ UNCHANGED last
  /\ UNCHANGED <<storeVars, envVars, nextDep, nextWd, credited, debited>>

\* const users = await getUsersObj()
CronUsers(t) ==
  /\ th[t].pc = "CronUsers"
  /\ Goto(t, [th[t] EXCEPT !.pc = "CronLoop", !.snap = users,
                           !.keys = KeysOf(users)])
  /\ UNCHANGED <<storeVars, envVars, last, ops, nextDep, nextWd, credited, debited>>

\* the loop from one putUser to the next, or to the end of the loop
CronLoop(t) ==
  /\ th[t].pc = "CronLoop"
  /\ LET nxt == CronSkip(th[t].snap, th[t].keys)
     IN IF nxt[2].email = ""
          THEN Goto(t, [th[t] EXCEPT !.pc = "CronSaveMeta", !.keys = <<>>,
                                     !.snap = EmptyUsers, !.u = NoUser])
          ELSE Goto(t, [th[t] EXCEPT !.pc = "PutRead", !.ret = "CronLoop",
                                     !.keys = nxt[1], !.u = nxt[2]])
  /\ UNCHANGED <<storeVars, envVars, last, ops, nextDep, nextWd, credited, debited>>

\* meta.lastDailyRun = Date.now(); await saveMeta(meta)
CronSaveMeta(t) ==
  /\ th[t].pc = "CronSaveMeta"
  /\ meta' = [lastDailyRun |-> now]
  /\ Answer(t, "cron", "", 0, "Daily earnings applied")
  /\ UNCHANGED <<users, deposits, withdrawals, envVars, ops, nextDep, nextWd,
                 credited, debited>>

\* the rejection leaving the callback of the job uncaught: the job stops
\* where it is and its slot is never given back
CronPutFailsMut(t) ==
  /\ th[t].op = "cron"
  /\ th[t].pc \in {"PutRead", "PutWrite"}
  /\ Goto(t, [th[t] EXCEPT !.pc = "exit"])
  /\ UNCHANGED <<storeVars, envVars, last, ops, nextDep, nextWd, credited,
                 debited>>

\* a storage call of putUser rejects inside the job: the catch around the
\* whole loop logs 'daily cron error'; nothing more is written
CronPutFails(t) ==
  /\ th[t].op = "cron"
  /\ th[t].pc \in {"PutRead", "PutWrite"}
  /\ Answer(t, "cron", th[t].u.email, 0, "daily cron error")
  /\ UNCHANGED <<storeVars, envVars, ops, nextDep, nextWd, credited, debited>>

\* getUsersObj or saveMeta rejects inside the job: the same catch
CronReadFails(t) ==
  /\ th[t].op = "cron"
  /\ th[t].pc \in {"CronUsers", "CronSaveMeta"}
  /\ Answer(t, "cron", "", 0, "daily cron error")
  /\ UNCHANGED <<storeVars, envVars, ops, nextDep, nextWd, credited, debited>>

\* ------------------------------------------------ src/Index.js: clock
\* Date.now() moves on
Tick ==
  /\ ticks < MaxTicks
  /\ ticks' = ticks + 1
  /\ now' = now + 10
  /\ UNCHANGED <<storeVars, th, last, darajaConfigured, SIMULATE_MPESA,
                 serial, ops, nextDep, nextWd, credited, debited, mvars,
                 zvars>>

\* ================================================== src/index.js (MongoDB)
\* The file holds two copies of the server; the model is the second one
\* (lines 361-793), whose handlers the first copy shares unless said
\* otherwise.  A handler runs to its end in one step.
MEmails == {"a", "b"}
Codes == {"C1", "C2"}
PayIds == 1..MaxPayments
MWdIds == 1..MaxMWithdrawals

RegularIds ==
  {"100", "200", "300", "400", "2ft", "4ft", "6ft", "8ft", "10ft", "12ft"}
OfferIds ==
  {"offer1", "offer2", "offer3", "offer4", "offer5", "offer6", "offer7",
   "offer8"}
FridgeIds == RegularIds \cup OfferIds

\* fridgeId.startsWith('offer'), for the ids the requests carry
\* every id taken for an offer id
StartsWithOfferMut(fid) == TRUE
StartsWithOffer(fid) == fid \in OfferIds \cup {"offerX"}

Regular(price, dailyEarn) ==
  [price |-> price, dailyEarn |-> dailyEarn, durationHrs |-> 0,
   startTime |-> -1, locked |-> FALSE]
LockedOffer ==
  [price |-> 0, dailyEarn |-> 0, durationHrs |-> 0, startTime |-> -1,
   locked |-> TRUE]

\* let FRIDGES = [...]
MongoFRIDGES ==
  [f \in FridgeIds |->
     CASE f = "100" -> Regular(100, 5)
       [] f = "200" -> Regular(200, 10)
       [] f = "300" -> Regular(300, 15)
       [] f = "400" -> Regular(400, 20)
       [] f = "2ft" -> Regular(500, 25)
       [] f = "4ft" -> Regular(1000, 55)
       [] f = "6ft" -> Regular(2000, 100)
       [] f = "8ft" -> Regular(4000, 150)
       [] f = "10ft" -> Regular(6000, 250)
       [] f = "12ft" -> Regular(8000, 350)
       [] OTHER -> LockedOffer]

NoMUser ==
  [email |-> "", phone |-> "", balance |-> 0, earning |-> 0,
   fridges |-> <<>>, lastDepositAttempt |-> -1,
   lastWithdrawalAttempt |-> -1]
NoCode == [code |-> "", amount |-> 0, usedBy |-> <<>>]
NoPay == [id |-> 0, userEmail |-> "", fridgeId |-> "", approved |-> FALSE]
NoMWd ==
  [id |-> 0, userEmail |-> "", phone |-> "", amount |-> 0,
   approved |-> FALSE]

MinWithdrawalM == 200
CooldownHours == 24

\* res.json(...) / ctx.answerCbQuery(...) of the handler that ran
MAnswer(op, email, id, res) ==
  /\ mLast' = [op |-> op, email |-> email, id |-> id, res |-> res]
  /\ mOps' = mOps + 1
  /\ UNCHANGED <<payouts, rd>>
  /\ UNCHANGED <<pvars, zvars>>

MCanStart == mOps < MaxMOps

\* elements of a usedBy / fridges array
Elems(s) == {s[i] : i \in 1..Len(s)}

\* POST /api/register
MRegister(email, phone) ==
  /\ MCanStart
  /\ IF phone = ""
       THEN /\ MAnswer("register", email, 0, "Missing fields")
            /\ UNCHANGED mUsers
       ELSE IF mUsers[email].email # ""
       THEN /\ MAnswer("register", email, 0, "Email exists")
            /\ UNCHANGED mUsers
       ELSE /\ mUsers' = [mUsers EXCEPT ![email] =
                            [NoMUser EXCEPT !.email = email, !.phone = phone]]
            /\ MAnswer("register", email, 0, "ok")
  /\ UNCHANGED <<offerCodes, payments, mWithdrawals, catalog, mNow, mTicks,
                 nextPay, nextMWd>>

\* POST /api/admin/offercode; isAdmin is req.user.email === ADMIN_EMAIL
AdminOfferCode(isAdmin, code, amount) ==
  /\ MCanStart
  /\ IF ~isAdmin
       THEN /\ MAnswer("offercode", "", 0, "Admin only")
            /\ UNCHANGED offerCodes
       ELSE IF code = "" \/ amount = 0
       THEN /\ MAnswer("offercode", "", 0, "Missing fields")
            /\ UNCHANGED offerCodes
       ELSE IF offerCodes[code].code # ""
       THEN /\ MAnswer("offercode", "", 0, "Offer code already exists")
            /\ UNCHANGED offerCodes
       ELSE /\ offerCodes' = [offerCodes EXCEPT ![code] =
                                [code |-> code, amount |-> amount,
                                 usedBy |-> <<>>]]
            /\ MAnswer("offercode", "", 0, "Offer code created")
  /\ UNCHANGED <<mUsers, payments, mWithdrawals, catalog, mNow, mTicks,
                 nextPay, nextMWd>>

\* the /api/offer/redeem handlers that may be in flight, and the locals of
\* one: the user and offer documents it has loaded
RdThreads == {1, 2}
IdleRd ==
  [pc |-> "idle", email |-> "", code |-> "", earning |-> 0, amount |-> 0]

\* the usedBy guard left out
AlreadyRedeemedMut(offer, email) == FALSE
\* offer.usedBy.includes(user.email)
AlreadyRedeemed(offer, email) == email \in Elems(offer.usedBy)

\* POST /api/offer/redeem; code is a key of Codes or "" (none given) or
\* "nope" (no such code)
OfferRedeem(email, code) ==
  /\ MCanStart
  /\ LET user == mUsers[email]
         offer == IF code \in Codes THEN offerCodes[code] ELSE NoCode
     IN IF code = ""
          THEN /\ MAnswer("redeem", email, 0, "No code provided")
               /\ UNCHANGED <<mUsers, offerCodes>>
          ELSE IF user.email = ""
          THEN /\ MAnswer("redeem", email, 0, "User not found")
               /\ UNCHANGED <<mUsers, offerCodes>>
          ELSE IF offer.code = ""
          THEN /\ MAnswer("redeem", email, 0, "Invalid offer code")
               /\ UNCHANGED <<mUsers, offerCodes>>
          ELSE IF AlreadyRedeemed(offer, email)
          THEN /\ MAnswer("redeem", email, 0, "You have already redeemed this code")
               /\ UNCHANGED <<mUsers, offerCodes>>
          ELSE /\ mUsers' = [mUsers EXCEPT ![email].earning = @ + offer.amount]
               /\ offerCodes' = [offerCodes EXCEPT
                                   ![code].usedBy = Append(@, email)]
               /\ MAnswer("redeem", email, 0, "Offer code redeemed")
  /\ UNCHANGED <<payments, mWithdrawals, catalog, mNow, mTicks, nextPay,
                 nextMWd>>

\* POST /api/admin/unlock
AdminUnlock(isAdmin, fridgeId, price, dailyEarn, durationHrs) ==
  /\ MCanStart
  /\ IF ~isAdmin
       THEN /\ MAnswer("unlock", "", 0, "Admin only")
            /\ UNCHANGED catalog
       ELSE IF ~(fridgeId \in FridgeIds /\ StartsWithOffer(fridgeId))
       THEN /\ MAnswer("unlock", "", 0, "Invalid fridge")
            /\ UNCHANGED catalog
       ELSE /\ catalog' = [catalog EXCEPT ![fridgeId] =
                             [price |-> price, dailyEarn |-> dailyEarn,
                              durationHrs |-> durationHrs,
                              startTime |-> mNow, locked |-> FALSE]]
            /\ MAnswer("unlock", "", 0, "unlocked")
  /\ UNCHANGED <<mUsers, offerCodes, payments, mWithdrawals, mNow, mTicks,
                 nextPay, nextMWd>>

\* POST /api/admin/lock
AdminLock(isAdmin, fridgeId) ==
  /\ MCanStart
  /\ IF ~isAdmin
       THEN /\ MAnswer("lock", "", 0, "Admin only")
            /\ UNCHANGED catalog
       ELSE IF ~(fridgeId \in FridgeIds /\ StartsWithOffer(fridgeId))
       THEN /\ MAnswer("lock", "", 0, "Invalid fridge")
            /\ UNCHANGED catalog
       ELSE /\ catalog' = [catalog EXCEPT ![fridgeId] = LockedOffer]
            /\ MAnswer("lock", "", 0, "locked")
  /\ UNCHANGED <<mUsers, offerCodes, payments, mWithdrawals, mNow, mTicks,
                 nextPay, nextMWd>>

\* the lookup finding nothing
HasPendingPaymentMut(email) == FALSE
\* Payment.findOne({ userEmail, approved: false })
HasPendingPayment(email) ==
  \E p \in PayIds : payments[p].id # 0 /\ payments[p].userEmail = email
                    /\ ~payments[p].approved

\* POST /api/payment/submit
PaymentSubmit(email, fridgeId) ==
  /\ MCanStart
  /\ LET user == mUsers[email]
     IN IF user.email = ""
          THEN /\ MAnswer("payment", email, 0, "User not found")
               /\ UNCHANGED <<mUsers, payments, nextPay>>
          ELSE IF /\ user.lastDepositAttempt # -1
                  /\ mNow - user.lastDepositAttempt < CooldownHours
                  /\ HasPendingPayment(email)
          THEN /\ MAnswer("payment", email, 0, "You already have a pending deposit")
               /\ UNCHANGED <<mUsers, payments, nextPay>>
          ELSE IF fridgeId \notin FridgeIds
          THEN /\ MAnswer("payment", email, 0, "Invalid fridge")
               /\ UNCHANGED <<mUsers, payments, nextPay>>
          ELSE IF catalog[fridgeId].locked
          THEN /\ MAnswer("payment", email, 0, "Fridge is locked")
               /\ UNCHANGED <<mUsers, payments, nextPay>>
          ELSE /\ nextPay <= MaxPayments
               /\ nextPay' = nextPay + 1
               /\ payments' = [payments EXCEPT ![nextPay] =
                                 [id |-> nextPay, userEmail |-> email,
                                  fridgeId |-> fridgeId, approved |-> FALSE]]
               /\ mUsers' = [mUsers EXCEPT
                               ![email].lastDepositAttempt = mNow]
               /\ MAnswer("payment", email, nextPay, "Payment submitted")
  /\ UNCHANGED <<offerCodes, mWithdrawals, catalog, mNow, mTicks, nextMWd>>

\* bot.on('callback_query'), data 'approve_<id>' or 'reject_<id>'
TgPayment(action, id) ==
  /\ MCanStart
  /\ LET payment == payments[id]
         user == mUsers[payment.userEmail]
     IN IF payment.id = 0
          THEN /\ MAnswer(action, "", id, "Payment not found")
               /\ UNCHANGED <<mUsers, payments>>
          ELSE IF user.email = "" \/ payment.fridgeId \notin FridgeIds
          THEN /\ MAnswer(action, "", id, "User or fridge not found")
               /\ UNCHANGED <<mUsers, payments>>
          ELSE IF action = "approve"
          THEN /\ mUsers' = [mUsers EXCEPT ![user.email].fridges =
                               Append(@, [id |-> payment.fridgeId,
                                          price |-> catalog[payment.fridgeId].price,
                                          dailyEarn |-> catalog[payment.fridgeId].dailyEarn])]
               /\ payments' = [payments EXCEPT ![id].approved = TRUE]
               /\ MAnswer(action, user.email, id, "Payment Approved")
          ELSE /\ payments' = [payments EXCEPT ![id] = NoPay]
               /\ UNCHANGED mUsers
               /\ MAnswer(action, user.email, id, "Payment Rejected")
  /\ UNCHANGED <<offerCodes, mWithdrawals, catalog, mNow, mTicks, nextPay,
                 nextMWd>>

\* Withdrawal.findOne({ userEmail, approved: false })
HasPendingWithdrawal(email) ==
  \E w \in MWdIds : mWithdrawals[w].id # 0
                    /\ mWithdrawals[w].userEmail = email
                    /\ ~mWithdrawals[w].approved

\* the phone comparison left out
MPhoneMismatchMut(user, phone) == FALSE
\* user.phone !== phone
MPhoneMismatch(user, phone) == user.phone # phone

\* kenyaNow.getDay(): hour 0 of the clock is Thursday 00:00 UTC, Nairobi is
\* three hours ahead; 0 is Sunday, 6 is Saturday
KenyaDay(t) == (((t + 3) \div 24) + 4) % 7
Weekend(t) == KenyaDay(t) \in {0, 6}

MReject(email, res) ==
  /\ MAnswer("withdraw", email, 0, res)
  /\ UNCHANGED <<mUsers, mWithdrawals, nextMWd>>

\* POST /api/withdraw
MWithdraw(email, phone, amount) ==
  /\ MCanStart
  /\ LET user == mUsers[email]
     IN IF user.email = ""
          THEN MReject(email, "User not found")
          ELSE IF /\ user.lastWithdrawalAttempt # -1
                  /\ mNow - user.lastWithdrawalAttempt < CooldownHours
                  /\ HasPendingWithdrawal(email)
          THEN MReject(email, "You already have a pending withdrawal")
          ELSE IF phone = "" \/ amount = 0 \/ amount < MinWithdrawalM
          THEN MReject(email, "Invalid phone or amount")
          ELSE IF MPhoneMismatch(user, phone)
          THEN MReject(email, "Withdrawal phone must match registered phone")
          ELSE IF Weekend(mNow)
          THEN MReject(email, "Withdrawals are only allowed Monday to Friday")
          ELSE IF user.earning < amount
          THEN MReject(email, "Insufficient earnings")
          ELSE /\ nextMWd <= MaxMWithdrawals
               /\ nextMWd' = nextMWd + 1
               /\ mWithdrawals' = [mWithdrawals EXCEPT ![nextMWd] =
                                     [id |-> nextMWd, userEmail |-> email,
                                      phone |-> phone, amount |-> amount,
                                      approved |-> FALSE]]
               /\ mUsers' = [mUsers EXCEPT
                               ![email].lastWithdrawalAttempt = mNow]
               /\ MAnswer("withdraw", email, nextMWd,
                          "Withdrawal request submitted")
  /\ UNCHANGED <<offerCodes, payments, catalog, mNow, mTicks, nextPay>>

\* bot.on('callback_query'), data 'withdraw_approve_<id>' or
\* 'withdraw_reject_<id>'
TgWithdraw(action, id) ==
  /\ MCanStart
  /\ LET wd == mWithdrawals[id]
         user == mUsers[wd.userEmail]
         op == "withdraw_" \o action
     IN IF wd.id = 0
          THEN /\ MAnswer(op, "", id, "Withdrawal not found")
               /\ UNCHANGED <<mUsers, mWithdrawals>>
          ELSE IF user.email = ""
          THEN /\ MAnswer(op, "", id, "User not found")
               /\ UNCHANGED <<mUsers, mWithdrawals>>
          ELSE IF action = "approve"
          THEN IF user.earning < wd.amount
                 THEN /\ MAnswer(op, user.email, id, "Insufficient earnings")
                      /\ UNCHANGED <<mUsers, mWithdrawals>>
                 ELSE /\ mUsers' = [mUsers EXCEPT
                                      ![user.email].earning = @ - wd.amount]
                      /\ mWithdrawals' = [mWithdrawals EXCEPT
                                            ![id].approved = TRUE]
                      /\ MAnswer(op, user.email, id, "Withdrawal Approved")
          ELSE /\ mWithdrawals' = [mWithdrawals EXCEPT ![id] = NoMWd]
               /\ UNCHANGED mUsers
               /\ MAnswer(op, user.email, id, "Withdrawal Rejected")
  /\ UNCHANGED <<offerCodes, payments, catalog, mNow, mTicks, nextPay,
                 nextMWd>>

\* an offer holding paying the price it was bought at, whatever the table says
EarnOfMut(f, t) ==
  IF f.id \notin FridgeIds THEN 0
  ELSE IF ~StartsWithOffer(f.id) THEN catalog[f.id].dailyEarn
  ELSE f.price

\* the earn of one holding f at time t, from the catalog entry of its id
EarnOf(f, t) ==
  IF f.id \notin FridgeIds THEN 0
  ELSE LET fridge == catalog[f.id]
       IN IF ~StartsWithOffer(f.id) THEN fridge.dailyEarn
          ELSE IF /\ fridge.startTime # -1
                  /\ fridge.durationHrs # 0
                  /\ t >= fridge.startTime + fridge.durationHrs
                 THEN fridge.price
                 ELSE 0

RECURSIVE EarnSum(_, _)
EarnSum(fs, t) ==
  IF fs = <<>> THEN 0 ELSE EarnOf(Head(fs), t) + EarnSum(Tail(fs), t)

\* fridge.startTime && fridge.durationHrs && now >= endTime, for a holding
\* of an offer fridge
OfferDue(f, t) ==
  /\ f.id \in FridgeIds
  /\ StartsWithOffer(f.id)
  /\ catalog[f.id].startTime # -1
  /\ catalog[f.id].durationHrs # 0
  /\ t >= catalog[f.id].startTime + catalog[f.id].durationHrs

\* the holdings of an account for which a run at time t adds fridge.price
DueHoldings(e, t) ==
  {i \in 1..Len(mUsers[e].fridges) : OfferDue(mUsers[e].fridges[i], t)}

\* runDailyEarnings(), the users as it leaves them
RunDailyEarnings(t) ==
  [e \in MEmails |->
     IF mUsers[e].email = "" THEN mUsers[e]
     ELSE [mUsers[e] EXCEPT !.earning = @ + EarnSum(mUsers[e].fridges, t)]]

\* Half a day passes; setInterval(runDailyEarnings, 24h) fires on every
\* second one.
MTick ==
  /\ mTicks < MaxMTicks
  /\ mTicks' = mTicks + 1
  /\ mNow' = mNow + 12
  /\ mUsers' = IF mTicks' % 2 = 0 THEN RunDailyEarnings(mNow') ELSE mUsers
  /\ payouts' = IF mTicks' % 2 = 0
                  THEN [e \in MEmails |->
                          payouts[e] + Cardinality(DueHoldings(e, mNow'))]
                  ELSE payouts
  /\ UNCHANGED rd
  /\ UNCHANGED <<offerCodes, payments, mWithdrawals, catalog, mOps, nextPay,
                 nextMWd, mLast>>
  /\ UNCHANGED <<pvars, zvars>>

\* User.find() returns the documents in insertion order
MUserOrder == <<"a", "b">>

\* runDailyEarnings() of the interval with a rejection: User.find() rejects
\* (saved = 0) or the save of the document after the first saved ones does;
\* the catch writes 'Daily earnings error' and the run is over.  The id of
\* the console line is the half day it is written on.
MRunFails(saved) ==
  /\ mTicks < MaxMTicks
  /\ (mTicks + 1) % 2 = 0
  /\ mTicks' = mTicks + 1
  /\ mNow' = mNow + 12
  /\ LET done == {MUserOrder[i] : i \in 1..saved}
     IN /\ mUsers' = [e \in MEmails |->
                        IF e \in done THEN RunDailyEarnings(mNow')[e]
                        ELSE mUsers[e]]
        /\ payouts' = [e \in MEmails |->
                         IF e \in done
                           THEN payouts[e]
                                + Cardinality(DueHoldings(e, mNow'))
                           ELSE payouts[e]]
  /\ mLast' = [op |-> "earnings", email |-> "", id |-> mTicks',
               res |-> "Daily earnings error"]
  /\ UNCHANGED rd
  /\ UNCHANGED <<offerCodes, payments, mWithdrawals, catalog, mOps, nextPay,
                 nextMWd>>
  /\ UNCHANGED <<pvars, zvars>>

\* ================================================== src/unnamed/part_000
ZEmails == {"a", "b"}
NoZUser == [email |-> "", phone |-> "", earning |-> 0]

ZAnswer(op, email, res) ==
  /\ zLast' = [op |-> op, email |-> email, res |-> res]
  /\ zOps' = zOps + 1
  /\ UNCHANGED <<pvars, mvars>>

ZCanStart == zOps < MaxZOps

\* POST /api/register
ZRegister(email, phone) ==
  /\ ZCanStart
  /\ IF phone = ""
       THEN /\ ZAnswer("register", email, "All fields required")
            /\ UNCHANGED zUsers
       ELSE IF zUsers[email].email # ""
       THEN /\ ZAnswer("register", email, "Email exists")
            /\ UNCHANGED zUsers
       ELSE IF \E e \in ZEmails : zUsers[e].email # "" /\ zUsers[e].phone = phone
       THEN /\ ZAnswer("register", email, "Phone exists")
            /\ UNCHANGED zUsers
       ELSE /\ zUsers' = [zUsers EXCEPT ![email] =
                            [email |-> email, phone |-> phone, earning |-> 0]]
            /\ ZAnswer("register", email, "ok")
  /\ UNCHANGED zWithdrawals

\* phone !== u.phone
ZWrongPhone(u, phone) == phone # u.phone

\* POST /api/withdraw; the handler has no try/catch, so a token of an
\* account that is not stored ends in a TypeError on u.phone
ZWithdraw(email, phone, amount) ==
  /\ ZCanStart
  /\ LET u == zUsers[email]
     IN IF u.email = ""
          THEN /\ ZAnswer("withdraw", email, "TypeError")
               /\ UNCHANGED zWithdrawals
          ELSE IF ZWrongPhone(u, phone)
          THEN /\ ZAnswer("withdraw", email, "Wrong phone number")
               /\ UNCHANGED zWithdrawals
          ELSE IF u.earning < amount
          THEN /\ ZAnswer("withdraw", email, "Insufficient balance")
               /\ UNCHANGED zWithdrawals
          ELSE /\ Len(zWithdrawals) < MaxZWithdrawals
               /\ zWithdrawals' = Append(zWithdrawals,
                                         [email |-> email, phone |-> phone,
                                          amount |-> amount,
                                          status |-> "PENDING"])
               /\ ZAnswer("withdraw", email, "Withdrawal request sent")
  /\ UNCHANGED zUsers

\* POST /api/apply-offer; valid is code.toUpperCase() === 'BITFREEZE'
ZApplyOffer(email, valid) ==
  /\ ZCanStart
  /\ IF ~valid
       THEN /\ ZAnswer("apply-offer", email, "Invalid code")
            /\ UNCHANGED zUsers
       ELSE IF zUsers[email].email = ""
       THEN /\ ZAnswer("apply-offer", email, "Server error")
            /\ UNCHANGED zUsers
       ELSE /\ zUsers' = [zUsers EXCEPT ![email].earning = @ + 100]
            /\ ZAnswer("apply-offer", email, "Offer applied")
  /\ UNCHANGED zWithdrawals

\* ------------------------------------------------ src/index.js: start
\* Two accounts are registered and "a" has redeemed the code "C1".
SeedMUsers ==
  [e \in MEmails |->
     IF e = "a"
       THEN [NoMUser EXCEPT !.email = "a", !.phone = "p1", !.earning = 500]
       ELSE [NoMUser EXCEPT !.email = "b", !.phone = "p2"]]
SeedCodes ==
  [c \in Codes |->
     IF c = "C1" THEN [code |-> "C1", amount |-> 500, usedBy |-> <<"a">>]
     ELSE NoCode]

InitMongo ==
  /\ mUsers = SeedMUsers
  /\ offerCodes = SeedCodes
  /\ payments = [p \in PayIds |-> NoPay]
  /\ mWithdrawals = [w \in MWdIds |-> NoMWd]
  /\ catalog = MongoFRIDGES
  /\ mNow = 9
  /\ mTicks = 0
  /\ mOps = 0
  /\ nextPay = 1
  /\ nextMWd = 1
  /\ mLast = [op |-> "", email |-> "", id |-> 0, res |-> ""]
  /\ payouts = [e \in MEmails |-> 0]
  /\ rd = [t \in RdThreads |-> IdleRd]

\* ------------------------------------------------ part_000: start
SeedZUsers ==
  [e \in ZEmails |->
     IF e = "a" THEN [email |-> "a", phone |-> "p1", earning |-> 100]
     ELSE NoZUser]

InitZ ==
  /\ zUsers = SeedZUsers
  /\ zWithdrawals = <<>>
  /\ zOps = 0
  /\ zLast = [op |-> "", email |-> "", res |-> ""]


\* ------------------------------------------------ src/Index.js: initial state
\* initStorage keeps the items the persist/ folder already holds.  The folder
\* is the one an earlier run leaves after: register a (phone p1), deposit
\* 1000 by STK push and its success callback at hour 90, a second STK
\* deposit of 500 not yet called back, and a withdrawal request of 300.
SeedUsers ==
  [EmptyUsers EXCEPT !["a"] =
     [email |-> "a", phone |-> "p1", balance |-> 1000, fridges |-> <<>>,
      refCode |-> RefCodeOf("a"), referredBy |-> ""]]
SeedDeposits ==
  [EmptyDeposits EXCEPT
     ![1] = [id |-> 1, user |-> "a", amount |-> 1000, phone |-> "p1",
             status |-> "confirmed", darajaRef |-> 1, confirmedAt |-> 90],
     ![2] = [id |-> 2, user |-> "a", amount |-> 500, phone |-> "p1",
             status |-> "pending", darajaRef |-> 2, confirmedAt |-> -1]]
SeedWithdrawals ==
  [EmptyWithdrawals EXCEPT
     ![1] = [id |-> 1, user |-> "a", amount |-> 300, phone |-> "p1",
             status |-> "pending"]]

InitStore ==
  /\ users = SeedUsers
  /\ deposits = SeedDeposits
  /\ withdrawals = SeedWithdrawals
  /\ meta = [lastDailyRun |-> 0]
  /\ th = [t \in Threads |-> IdleTh]
  /\ last = NoResponse
  /\ darajaConfigured \in BOOLEAN
  /\ SIMULATE_MPESA \in BOOLEAN
  /\ now = 100
  /\ ticks = 0
  /\ ops = 0
  /\ nextDep = 3
  /\ nextWd = 2
  /\ credited = [d \in DepIds |-> IF d = 1 THEN 1 ELSE 0]
  /\ debited = [w \in WdIds |-> 0]

\* ------------------------------------------------ src/Index.js: inputs
PhoneInputs == {"", "p1", "p2"}
RefInputs == {"", "a", "b", "rca"}
DepositAmounts == {0, 500, 1000}
WithdrawAmounts == {100, 300}
FridgeInputs == {"2ft", "4ft", "nope"}

StartAny(t) ==
  \/ \E e \in Emails, p \in PhoneInputs, r \in RefInputs :
       StartRegister(t, e, p, r)
  \/ \E e \in Emails, f \in FridgeInputs : StartBuy(t, e, f)
  \/ \E e \in Emails, a \in DepositAmounts, p \in PhoneInputs,
        k \in {"ok", "throw"} : StartDeposit(t, e, a, p, k)
  \/ \E c \in 0..MaxDeposits, s \in BOOLEAN : StartCallback(t, c, s)
  \/ \E d \in DepIds : StartConfirm(t, d)
  \/ \E e \in Emails, a \in WithdrawAmounts, p \in PhoneInputs :
       StartWithdraw(t, e, a, p)
  \/ \E w \in WdIds : StartApprove(t, w)
  \/ \E w \in WdIds : StartReject(t, w)
  \/ StartCron(t)

StepAny(t) ==
  \/ PutRead(t) \/ PutWrite(t) \/ RegWrite(t)
  \/ RefFind(t) \/ RefScan(t)
  \/ RecRead(t) \/ RecWrite(t)
  \/ CbWrite(t) \/ CbFindUser(t) \/ CbFailWrite(t)
  \/ AcWrite(t) \/ AcFindUser(t)
  \/ WdDeps(t) \/ WdRead(t) \/ WdWrite(t)
  \/ ApFind(t) \/ ApWrite(t) \/ RjWrite(t)
  \/ CronUsers(t) \/ CronLoop(t) \/ CronSaveMeta(t)

Next == Tick \/ \E t \in Threads : StartAny(t) \/ StepAny(t)

\* requests one at a time, each handler running to its end
InitAll == InitStore /\ InitMongo /\ InitZ
InitSeq == InitAll /\ serial = TRUE
SpecSeq == InitSeq /\ [][Next]_vars

\* requests at any time, handlers interleaved at their awaits
InitConc == InitAll /\ serial = FALSE
SpecConc == InitConc /\ [][Next]_vars

\* confirm-deposit and approve-withdrawal only, interleaved at their awaits
NextRace ==
  \E t \in Threads :
    \/ \E d \in DepIds : StartConfirm(t, d)
    \/ \E w \in WdIds : StartApprove(t, w)
    \/ AcWrite(t) \/ AcFindUser(t) \/ RefFind(t)
    \/ ApFind(t) \/ ApWrite(t)
    \/ PutRead(t) \/ PutWrite(t)
SpecRace == InitConc /\ [][NextRace]_vars

\* ------------------------------------------------ src/Index.js: other folders
\* The folder after: register a and b (b with a's refCode), deposits and
\* purchases that leave a with 1000 and a 2ft fridge and b with 600 and a
\* 4ft fridge, an STK deposit of 1000 by b not yet called back, and a
\* withdrawal request of 300 by a.
BusyUsers ==
  [e \in Emails |->
     IF e = "a"
       THEN [email |-> "a", phone |-> "p1", balance |-> 1000,
             fridges |-> <<"2ft">>, refCode |-> RefCodeOf("a"),
             referredBy |-> ""]
       ELSE [email |-> "b", phone |-> "p2", balance |-> 600,
             fridges |-> <<"4ft">>, refCode |-> RefCodeOf("b"),
             referredBy |-> RefCodeOf("a")]]
BusyDeposits ==
  [SeedDeposits EXCEPT
     ![2] = [id |-> 2, user |-> "b", amount |-> 1000, phone |-> "p2",
             status |-> "pending", darajaRef |-> 2, confirmedAt |-> -1]]

InitBusy ==
  /\ users = BusyUsers
  /\ deposits = BusyDeposits
  /\ withdrawals = SeedWithdrawals
  /\ meta = [lastDailyRun |-> 0]
  /\ th = [t \in Threads |-> IdleTh]
  /\ last = NoResponse
  /\ darajaConfigured \in BOOLEAN
  /\ SIMULATE_MPESA \in BOOLEAN
  /\ now = 100
  /\ ticks = 0
  /\ ops = 0
  /\ nextDep = 3
  /\ nextWd = 2
  /\ credited = [d \in DepIds |-> IF d = 1 THEN 1 ELSE 0]
  /\ debited = [w \in WdIds |-> 0]
  /\ serial = TRUE
  /\ InitMongo /\ InitZ
\* every request but a registration: both emails are taken
StartBusy(t) ==
  \/ \E e \in Emails, f \in FridgeInputs : StartBuy(t, e, f)
  \/ \E e \in Emails, a \in DepositAmounts, p \in PhoneInputs,
        k \in {"ok", "throw"} : StartDeposit(t, e, a, p, k)
  \/ \E c \in 0..MaxDeposits, s \in BOOLEAN : StartCallback(t, c, s)
  \/ \E d \in DepIds : StartConfirm(t, d)
  \/ \E e \in Emails, a \in WithdrawAmounts, p \in PhoneInputs :
       StartWithdraw(t, e, a, p)
  \/ \E w \in WdIds : StartApprove(t, w)
  \/ \E w \in WdIds : StartReject(t, w)
  \/ StartCron(t)
StepBusy(t) ==
  \/ PutRead(t) \/ PutWrite(t)
  \/ RefFind(t) \/ RefScan(t)
  \/ RecRead(t) \/ RecWrite(t)
  \/ CbWrite(t) \/ CbFindUser(t) \/ CbFailWrite(t)
  \/ AcWrite(t) \/ AcFindUser(t)
  \/ WdDeps(t) \/ WdRead(t) \/ WdWrite(t)
  \/ ApFind(t) \/ ApWrite(t) \/ RjWrite(t)
  \/ CronUsers(t) \/ CronLoop(t) \/ CronSaveMeta(t)
NextBusy == Tick \/ \E t \in Threads : StartBusy(t) \/ StepBusy(t)
SpecBusy == InitBusy /\ [][NextBusy]_vars

\* the same with storage failures in the daily job
NextFault == NextBusy \/ \E t \in Threads : CronPutFails(t)
SpecFault == InitBusy /\ [][NextFault]_vars

\* The first folder with a second withdrawal request of a, of 800, pending;
\* approve and reject only, interleaved at their awaits.
TwoPending ==
  [SeedWithdrawals EXCEPT
     ![2] = [id |-> 2, user |-> "a", amount |-> 800, phone |-> "p1",
             status |-> "pending"]]
InitTwoPending ==
  /\ users = SeedUsers
  /\ deposits = SeedDeposits
  /\ withdrawals = TwoPending
  /\ meta = [lastDailyRun |-> 0]
  /\ th = [t \in Threads |-> IdleTh]
  /\ last = NoResponse
  /\ darajaConfigured \in BOOLEAN
  /\ SIMULATE_MPESA \in BOOLEAN
  /\ now = 100
  /\ ticks = 0
  /\ ops = 0
  /\ nextDep = 3
  /\ nextWd = 3
  /\ credited = [d \in DepIds |-> IF d = 1 THEN 1 ELSE 0]
  /\ debited = [w \in WdIds |-> 0]
  /\ serial = FALSE
  /\ InitMongo /\ InitZ
NextApprove ==
  \E t \in Threads :
    \/ \E w \in WdIds : StartApprove(t, w)
    \/ \E w \in WdIds : StartReject(t, w)
    \/ ApFind(t) \/ ApWrite(t) \/ RjWrite(t)
    \/ PutRead(t) \/ PutWrite(t)
SpecApprove == InitTwoPending /\ [][NextApprove]_vars

\* ------------------------------------------------ src/index.js, part_000: inputs
MAmounts == {-100, 0, 500}
MWithdrawAmounts == {100, 200, 600}
MFridgeInputs == {"100", "offer1", "nope"}
MCodeInputs == {"", "C1", "C2", "nope"}
UnlockPrices == {-300, 300}
UnlockHours == {0, 12}

NextM ==
  \/ MTick
  \/ \E e \in MEmails, p \in {"", "p1", "p2"} : MRegister(e, p)
  \/ \E adm \in BOOLEAN, c \in {"", "C1", "C2"}, x \in MAmounts :
       AdminOfferCode(adm, c, x)
  \/ \E e \in MEmails, c \in MCodeInputs : OfferRedeem(e, c)
  \/ \E adm \in BOOLEAN, f \in MFridgeInputs, x \in UnlockPrices,
        h \in UnlockHours : AdminUnlock(adm, f, x, 0, h)
  \/ \E adm \in BOOLEAN, f \in MFridgeInputs : AdminLock(adm, f)
  \/ \E e \in MEmails, f \in MFridgeInputs : PaymentSubmit(e, f)
  \/ \E act \in {"approve", "reject"}, id \in PayIds : TgPayment(act, id)
  \/ \E act \in {"approve", "reject"}, id \in MWdIds : TgWithdraw(act, id)
  \/ \E e \in MEmails, p \in {"", "p1", "p2"}, x \in MWithdrawAmounts :
       MWithdraw(e, p, x)

NextZ ==
  \/ \E e \in ZEmails, p \in {"", "p1", "p2"} : ZRegister(e, p)
  \/ \E e \in ZEmails, p \in {"p1", "p2"}, x \in {50, 200} :
       ZWithdraw(e, p, x)
  \/ \E e \in ZEmails, v \in BOOLEAN : ZApplyOffer(e, v)

\* the node-persist server is not running: its switches are fixed
InitServers == InitSeq /\ darajaConfigured = FALSE /\ SIMULATE_MPESA = TRUE
SpecMongo == InitServers /\ [][NextM]_vars
SpecP0 == InitServers /\ [][NextZ]_vars

\* the two servers side by side, each on its own store
NextVariants ==
  \/ \E e \in MEmails, p \in {"", "p1", "p2"}, x \in MWithdrawAmounts :
       MWithdraw(e, p, x)
  \/ \E act \in {"approve", "reject"}, id \in MWdIds : TgWithdraw(act, id)
  \/ MTick
  \/ NextZ
SpecVariants == InitServers /\ [][NextVariants]_vars

\* ------------------------------------------------ src/Index.js: properties
\* the request op on id starts in this step
Called(op, id) ==
  /\ ops' = ops + 1
  /\ \/ \E t \in Threads : Idle(t) /\ th'[t].op = op /\ th'[t].id = id
     \/ th' = th /\ last'.op = op /\ last'.id = id

\* the handler on slot t sends its answer in this step
Answered(t) == th[t].op # "idle" /\ th'[t].op = "idle"

\* C1: for any sequence of admin confirms and success callbacks on one
\* deposit id, the owner's balance is credited for it exactly once: never
\* twice, and once when the deposit is confirmed and no handler is running.
C1_CreditedExactlyOnce ==
  \A d \in DepIds :
    /\ credited[d] <= 1
    /\ (Quiescent /\ deposits[d].status = "confirmed") => credited[d] = 1

\* C2: every account's balance is >= 0 in every reachable state, handlers
\* interleaved at their awaits.
C2_BalanceNonNegative == \A e \in Emails : users[e].balance >= 0

\* C2 witness: an approve was refused for lack of balance after a purchase
\* took the balance below the requested amount.
C2_Witness ==
  /\ last.op = "approve" /\ last.res = "Insufficient balance"
  /\ users["a"].fridges # <<>>
  /\ users["a"].balance < withdrawals[last.id].amount

\* C4: a deposit's status, once 'confirmed' or 'failed', never changes.
C4_TerminalStatusFrozen ==
  [][\A d \in DepIds :
       deposits[d].status \in {"confirmed", "failed"}
         => deposits'[d].status = deposits[d].status]_vars

\* C5: when the admin confirm of pending deposit 2 and the admin approve of
\* pending withdrawal 1, both of account a, have both run (interleaved or
\* not), the balance is the initial one plus the deposit minus the
\* withdrawal.
C5_NoLostUpdate ==
  (/\ Quiescent
   /\ deposits[2].status = "confirmed" /\ credited[2] = 1
   /\ withdrawals[1].status = "approved" /\ debited[1] = 1)
  => users["a"].balance =
       SeedUsers["a"].balance + SeedDeposits[2].amount
         - SeedWithdrawals[1].amount

\* a withdrawal record in a terminal state never changes
C6_TerminalFrozen ==
  \A w \in WdIds :
    withdrawals[w].status \in {"approved", "rejected"}
      => withdrawals'[w] = withdrawals[w]

\* an approve or reject of a request in a terminal state answers
\* 'Already processed' and changes no stored item
C6_LaterCallsNoOp ==
  \A w \in WdIds : \A op \in {"approve", "reject"} :
    (Called(op, w) /\ withdrawals[w].status \in {"approved", "rejected"})
      => /\ last'.res = "Already processed"
         /\ th' = th
         /\ UNCHANGED storeVars

\* with no handler running, a request was debited once if it is approved and
\* never otherwise
C6_OneDebit ==
  Quiescent =>
    \A w \in WdIds :
      debited[w] = IF withdrawals[w].status = "approved" THEN 1 ELSE 0

\* the debit is of the request's amount, from its owner
C6_DebitIsAmount ==
  \A w \in WdIds :
    debited'[w] # debited[w] =>
      /\ withdrawals[w].status = "pending"
      /\ users' = [users EXCEPT ![withdrawals[w].user].balance =
                                  @ - withdrawals[w].amount]

\* C6 as stated: every approve or reject that found the request pending ends
\* with the request in a terminal state (approved with one debit of the
\* amount, rejected with none); later calls are no-ops.
C6_FirstPendingCallIsTerminal ==
  [][/\ \A t \in Threads :
          (Answered(t) /\ th[t].op \in {"approve", "reject"})
            => withdrawals'[th[t].id].status \in {"approved", "rejected"}
     /\ C6_TerminalFrozen /\ C6_LaterCallsNoOp /\ C6_DebitIsAmount
     /\ C6_OneDebit']_vars

\* C6 amended: an approve that finds the request pending and the balance
\* below the amount answers 'Insufficient balance' and changes nothing, the
\* request staying pending; otherwise the first approve or reject that finds
\* the request pending makes it approved (one debit of the amount) or
\* rejected (no debit), and every later approve or reject answers 'Already
\* processed' and changes neither the record nor any balance.
C6_Amended ==
  [][/\ \A t \in Threads :
          (Answered(t) /\ th[t].op = "approve")
            => \/ /\ last'.res = "Insufficient balance"
                  /\ users[th[t].email].balance < th[t].amount
                  /\ UNCHANGED storeVars
               \/ /\ last'.res = "Withdrawal approved"
                  /\ withdrawals'[th[t].id].status = "approved"
                  /\ UNCHANGED users
     /\ \A t \in Threads :
          (Answered(t) /\ th[t].op = "reject")
            => /\ withdrawals'[th[t].id].status = "rejected"
               /\ UNCHANGED users
     /\ \A t \in Threads :
          th[t].op = "reject" => UNCHANGED users
     /\ C6_TerminalFrozen /\ C6_LaterCallsNoOp /\ C6_DebitIsAmount
     /\ C6_OneDebit']_vars

\* C6 witness: a second approve of an approved request was answered
\* 'Already processed', the request debited once.
C6_Witness ==
  /\ last.op = "approve" /\ last.res = "Already processed"
  /\ withdrawals[last.id].status = "approved"
  /\ debited[last.id] = 1
  /\ users["a"].balance =
       SeedUsers["a"].balance - withdrawals[last.id].amount

\* C10: an accepted withdrawal request adds one record with status
\* 'pending' and no step of the request changes a balance; a balance goes
\* down only in a purchase or in the admin approve of a pending request,
\* there by that request's amount.
C10_RequestDoesNotDebit ==
  [][/\ \A t \in Threads :
          th[t].op = "withdraw" => UNCHANGED users
     /\ \A w \in 0..MaxWithdrawals :
          Called("withdraw", w) => UNCHANGED users
     /\ \A t \in Threads :
          (Answered(t) /\ th[t].op = "withdraw"
             /\ last'.res = "Withdrawal request created")
            => /\ withdrawals[th[t].id] = NoWd
               /\ withdrawals' =
                    [withdrawals EXCEPT ![th[t].id] =
                       [id |-> th[t].id, user |-> th[t].email,
                        amount |-> th[t].amount, phone |-> th[t].phone,
                        status |-> "pending"]]
     /\ \A e \in Emails :
          users'[e].balance < users[e].balance
            => \E t \in Threads :
                 \/ th[t].op = "buy"
                 \/ /\ th[t].op = "approve"
                    /\ withdrawals[th[t].id].status = "pending"
                    /\ withdrawals[th[t].id].user = e
                    /\ users'[e].balance =
                         users[e].balance - withdrawals[th[t].id].amount]_vars

\* C10 witness: a request was accepted, its record is pending and the
\* owner's balance is the one before the request.
C10_Witness ==
  /\ last.op = "withdraw" /\ last.res = "Withdrawal request created"
  /\ withdrawals[last.id].status = "pending"
  /\ withdrawals[last.id].amount > 0
  /\ users[last.email].balance = SeedUsers[last.email].balance


\* ------------------------------------------------ src/index.js: properties
\* the handler op answers in this step
MCalled(op) == mOps' = mOps + 1 /\ mLast'.op = op

\* C3: every account's earning is >= 0 in every state reached by offer-code
\* creation with any accepted amount, redemption, unlocking at any price,
\* the daily job and Telegram withdrawal approvals.
C3_EarningNonNegative == \A e \in MEmails : mUsers[e].earning >= 0

\* C7: an approve callback on a withdrawal that is already approved debits
\* nothing, and no callback removes or changes an approved withdrawal.
C7_ApprovedIsFinal ==
  [][\A w \in MWdIds :
       (mWithdrawals[w].id # 0 /\ mWithdrawals[w].approved)
         => /\ mWithdrawals'[w] = mWithdrawals[w]
            /\ (MCalled("withdraw_approve") /\ mLast'.id = w)
                 => mUsers' = mUsers]_vars

\* C8: a redemption of a code by an account that has not used it adds the
\* code's amount to the account's earning and records the account in
\* usedBy; a redemption by an account recorded in usedBy is rejected and
\* changes neither the earning nor the code; an account once recorded stays
\* recorded.
C8_RedeemOncePerAccount ==
  [][/\ \A e \in MEmails, c \in Codes :
          (OfferRedeem(e, c) /\ mUsers[e].email # ""
             /\ offerCodes[c].code # "")
            => IF e \in Elems(offerCodes[c].usedBy)
                 THEN /\ mLast'.res = "You have already redeemed this code"
                      /\ mUsers' = mUsers
                      /\ offerCodes' = offerCodes
                 ELSE /\ mLast'.res = "Offer code redeemed"
                      /\ mUsers' = [mUsers EXCEPT ![e].earning =
                                      @ + offerCodes[c].amount]
                      /\ offerCodes' = [offerCodes EXCEPT ![c].usedBy =
                                          Append(@, e)]
     /\ \A e \in MEmails, c \in Codes :
          e \in Elems(offerCodes[c].usedBy)
            => e \in Elems(offerCodes'[c].usedBy)]_vars

\* C8 witness: "b" redeemed "C1" and then sent it again; the second request
\* was rejected, the earning is one amount and usedBy holds "b" once.
C8_Witness ==
  /\ mLast.op = "redeem" /\ mLast.email = "b"
  /\ mLast.res = "You have already redeemed this code"
  /\ offerCodes["C1"].usedBy = <<"a", "b">>
  /\ mUsers["b"].earning = offerCodes["C1"].amount

\* C9: a withdrawal request whose phone differs from the account's
\* registered phone is rejected, creates no withdrawal record and leaves the
\* earning unchanged, in src/index.js and in part_000.
C9_WrongPhoneRejected ==
  [][/\ \A e \in MEmails, p \in {"", "p1", "p2"}, x \in MWithdrawAmounts :
          (MWithdraw(e, p, x) /\ mUsers[e].email # ""
             /\ p # mUsers[e].phone)
            => /\ mLast'.res # "Withdrawal request submitted"
               /\ mWithdrawals' = mWithdrawals
               /\ mUsers'[e].earning = mUsers[e].earning
     /\ \A e \in ZEmails, p \in {"p1", "p2"}, x \in {50, 200} :
          (ZWithdraw(e, p, x) /\ zUsers[e].email # "" /\ p # zUsers[e].phone)
            => /\ zLast'.res = "Wrong phone number"
               /\ zWithdrawals' = zWithdrawals
               /\ zUsers' = zUsers]_vars

\* C9 witness: both servers have answered a request of "a" that carried
\* another phone than the registered one, on a weekday and for an amount the
\* earning covers; neither holds a withdrawal record.
C9_Witness ==
  /\ mLast.op = "withdraw" /\ mLast.email = "a"
  /\ mLast.res = "Withdrawal phone must match registered phone"
  /\ ~Weekend(mNow) /\ mUsers["a"].earning >= MinWithdrawalM
  /\ \A w \in MWdIds : mWithdrawals[w] = NoMWd
  /\ zLast.op = "withdraw" /\ zLast.email = "a"
  /\ zLast.res = "Wrong phone number"
  /\ zUsers["a"].earning >= 50
  /\ zWithdrawals = <<>>

\* ------------------------------------------------ approvals and funds
RECURSIVE SumApproved(_, _)
\* the sum of the amounts that approve handlers took from account e for
\* the requests ws, one amount per putUser of an approve
SumApproved(ws, e) ==
  IF ws = {} THEN 0
  ELSE LET w == CHOOSE x \in ws : TRUE
       IN (IF withdrawals[w].user = e
             THEN debited[w] * withdrawals[w].amount ELSE 0)
          + SumApproved(ws \ {w}, e)

\* C11: with pending requests of one account whose sum exceeds its funds
\* and approve and reject the only requests sent, the approves that go
\* through are for a subset of the requests whose sum fits the funds the
\* account had.
C11_ApprovedSumFits ==
  \A e \in Emails : SumApproved(WdIds, e) <= SeedUsers[e].balance

\* ------------------------------------------------ deposits and referrals
\* C12: with Daraja not configured and simulation on, a deposit request
\* with amount A > 0 and a phone changes the depositor's balance in one
\* step only, by +A, and ends with one record of its id, 'confirmed', of
\* amount A, credited once.
C12_SimulatedDepositCreditsA ==
  [][\A t \in Threads :
       (th[t].op = "deposit" /\ ~darajaConfigured /\ SIMULATE_MPESA)
         => LET e == th[t].email
            IN /\ users'[e].balance # users[e].balance
                    => /\ th[t].credit = th[t].id
                       /\ users'[e].balance = users[e].balance + th[t].amount
               /\ Answered(t)
                    => /\ credited'[th[t].id] = 1
                       /\ deposits'[th[t].id].status = "confirmed"
                       /\ deposits'[th[t].id].amount = th[t].amount
                       /\ deposits'[th[t].id].user = e]_vars

\* the reward of the rule with the highest min among the rules whose
\* min <= amount; 0 when there is none
RuleReward(amount) ==
  LET ok == {i \in 1..Len(REFERRAL_RULES) : REFERRAL_RULES[i].min <= amount}
  IN IF ok = {} THEN 0
     ELSE REFERRAL_RULES[CHOOSE i \in ok :
            \A j \in ok : REFERRAL_RULES[i].min >= REFERRAL_RULES[j].min].reward

\* handler t is inside applyReferral
InReferral(t) ==
  /\ th[t].op \in {"deposit", "callback", "confirm"}
  /\ \/ th[t].pc \in {"RefFind", "RefScan"}
     \/ th[t].pc \in {"PutRead", "PutWrite"} /\ th[t].ret = "respond"

\* the accounts the referredBy of e resolves to
ReferrersOf(e) ==
  {r \in Emails : /\ users[r].email # ""
                  /\ users[e].referredBy # ""
                  /\ \/ users[r].refCode = users[e].referredBy
                     \/ users[r].email = users[e].referredBy}

\* applyReferral changes the users only by adding the reward of the
\* highest matching rule to a referrer of the depositor, and returns
\* without a credit only when no referrer is found or no rule matches
C13_RuleSelection ==
  \A t \in Threads :
    InReferral(t) =>
      /\ \/ users' = users
         \/ /\ RuleReward(th[t].amount) > 0
            /\ \E r \in ReferrersOf(th[t].email) :
                 users' = [users EXCEPT ![r].balance =
                             @ + RuleReward(th[t].amount)]
      /\ (Answered(t) /\ th[t].pc \in {"RefFind", "RefScan"})
           => \/ ReferrersOf(th[t].email) = {}
              \/ RuleReward(th[t].amount) = 0

\* C13: each confirmed deposit by an account with a referrer credits the
\* referrer once, with the reward of the highest rule whose min <= amount,
\* and credits nothing when amount < 500 or no referrer is found: a reward
\* is written only for the first credit of its deposit.
C13_OneRewardPerDeposit ==
  [][/\ C13_RuleSelection
     /\ \A t \in Threads :
          (InReferral(t) /\ users' # users) => credited[th[t].id] = 1]_vars

\* the rule selection alone, for every run of applyReferral
C13_RewardPerConfirmation == [][C13_RuleSelection]_vars

\* ------------------------------------------------ the daily job
\* C14: no step of the daily job changes an account's balance (the job
\* adds the sum of dailyEarn of the holdings to the earning).
C14_AccrualKeepsBalance ==
  [][\A t \in Threads :
       th[t].op = "cron"
         => \A e \in Emails : users'[e].balance = users[e].balance]_vars

\* C15: an invocation of the job that starts less than 20 hours after the
\* stored lastDailyRun is answered at once and changes no stored item, so
\* neither an account nor lastDailyRun; lastDailyRun only ever becomes the
\* time at which a run ends.
C15_GuardedRunChangesNothing ==
  [][/\ (Called("cron", 0) /\ now - meta.lastDailyRun < GuardHours)
          => /\ th' = th
             /\ last'.res = "skipped"
             /\ UNCHANGED storeVars
     /\ meta' # meta
          => /\ meta'.lastDailyRun = now
             /\ \E t \in Threads : th[t].op = "cron"]_vars

\* C15 witness: a run credited both accounts once, and an invocation less
\* than 20 hours after it was skipped.
C15_Witness ==
  /\ last.op = "cron" /\ last.res = "skipped"
  /\ meta.lastDailyRun > 0
  /\ now - meta.lastDailyRun < GuardHours
  /\ users["a"].balance = BusyUsers["a"].balance + 25
  /\ users["b"].balance = BusyUsers["b"].balance + 55

\* C16: when a putUser of the job fails for one account, every other
\* account with holdings that earn has, when the run ends, the balance the
\* run read plus its credit.
C16_OtherAccountsStillCredited ==
  [][\A t \in Threads :
       (Answered(t) /\ th[t].op = "cron" /\ last'.res = "daily cron error")
         => \A e \in Emails :
              (e # th[t].u.email /\ CreditOf(th[t].snap[e].fridges) > 0)
                => users'[e].balance =
                     th[t].snap[e].balance + CreditOf(th[t].snap[e].fridges)]_vars


\* the offer holdings of an account
OfferHoldings(e) ==
  {i \in 1..Len(mUsers[e].fridges) : StartsWithOffer(mUsers[e].fridges[i].id)}

\* C17: across the runs of runDailyEarnings an offer holding pays its price
\* at most once: holdings are never removed, so the payouts an account has
\* received never outnumber its offer holdings.
C17_OfferPaysOnce ==
  \A e \in MEmails : payouts[e] <= Cardinality(OfferHoldings(e))


\* C18: a callback that does not report success, for a deposit that is
\* pending, sets the deposit's status to 'failed' and changes no balance:
\* neither the step that reads the deposits nor the step that saves them
\* touches the users, and the save leaves the record 'failed'.
C18_FailedCallbackCreditsNothing ==
  [][\A t \in Threads :
       /\ (Idle(t) /\ th'[t].pc = "CbFailWrite") => users' = users
       /\ (th[t].pc = "CbFailWrite" /\ th'[t] # th[t])
            => /\ users' = users
               /\ last'.res = "not success"
               /\ deposits[th[t].id].status = "pending"
                    => deposits'[th[t].id].status = "failed"]_vars

\* the first request is a non-success callback for the pending deposit 2
C18_Witness ==
  /\ ops = 1
  /\ last.op = "callback" /\ last.res = "not success" /\ last.id = 2
  /\ deposits[2].status = "failed"
  /\ users = SeedUsers


\* C19: with Daraja configured and the STK push throwing, the deposit request
\* leaves its record 'pending' and credits no balance: no step of that
\* handler changes a user, and the record it saves is pending.
C19_StkFailureLeavesPending ==
  [][\A t \in Threads :
       (/\ th[t].op = "deposit"
        /\ darajaConfigured /\ ~th[t].hasRef
        /\ th'[t] # th[t])
         => /\ users' = users
            /\ th[t].pc = "RecWrite"
                 => deposits'[th[t].id].status = "pending"]_vars

\* C20: a balance increases only in a step of a handler that confirms a
\* deposit: the deposit request (simulated), the M-PESA callback or the
\* admin confirm.
C20_OnlyConfirmationCredits ==
  [][\A e \in Emails :
       users'[e].balance > users[e].balance
         => \E t \in Threads :
              /\ th'[t] # th[t]
              /\ th[t].op \in {"deposit", "callback", "confirm"}]_vars


\* ------------------------------------------------ src/Index.js: admin guard
\* const ADMIN_PASS = process.env.ADMIN_PASS || 'adminpass'
ADMIN_PASS == "adminpass"
PassInputs == {"", "guess", "adminpass"}
AdminRoutes ==
  {"list deposits", "confirm", "list withdraws", "approve", "reject", "info"}

\* a guard that turns away a missing pass only
adminAuthFailsMut(pass) == pass = ""
\* adminAuth: !pass || pass !== ADMIN_PASS
adminAuthFails(pass) == pass = "" \/ pass # ADMIN_PASS

\* GET /api/admin/deposits, /api/admin/withdraws, /api/admin/info: the
\* stored items are read and sent
AdminList(t, route) ==
  /\ CanStart(t)
  /\ ops' = ops + 1
  /\ Answer(t, route, "", 0, "listed")
  /\ UNCHANGED <<storeVars, envVars, nextDep, nextWd, credited, debited>>

\* an admin route as express runs it: adminAuth, then the handler
AdminRoute(t, route, pass, id) ==
  IF adminAuthFails(pass)
    THEN /\ CanStart(t)
         /\ ops' = ops + 1
         /\ Answer(t, route, "", 0, "Forbidden - admin")
         /\ UNCHANGED <<storeVars, envVars, nextDep, nextWd, credited,
                        debited>>
    ELSE CASE route = "confirm" -> id \in DepIds /\ StartConfirm(t, id)
           [] route = "approve" -> id \in WdIds /\ StartApprove(t, id)
           [] route = "reject" -> id \in WdIds /\ StartReject(t, id)
           [] OTHER -> AdminList(t, route)

\* the admin routes and the storage steps of their handlers
NextAdmin ==
  \E t \in Threads :
    \/ \E r \in AdminRoutes, p \in PassInputs, i \in DepIds \cup WdIds :
         AdminRoute(t, r, p, i)
    \/ AcWrite(t) \/ AcFindUser(t) \/ RefFind(t) \/ RefScan(t)
    \/ ApFind(t) \/ ApWrite(t) \/ RjWrite(t)
    \/ PutRead(t) \/ PutWrite(t)
SpecAdmin == InitBusy /\ [][NextAdmin]_vars

\* C21: an admin operation called with a missing or wrong admin secret is
\* answered 'Forbidden' and leaves users, deposits, withdrawals and meta
\* unchanged.
C21_WrongSecretForbidden ==
  [][\A t \in Threads, r \in AdminRoutes, p \in PassInputs,
        i \in DepIds \cup WdIds :
       (p # "adminpass" /\ AdminRoute(t, r, p, i))
         => /\ last'.res = "Forbidden - admin"
            /\ th'[t] = IdleTh
            /\ UNCHANGED storeVars]_vars

\* an approve with a wrong secret was turned away, withdrawal 1 still pending
C21_Witness ==
  /\ last.op = "approve" /\ last.res = "Forbidden - admin"
  /\ ops = 1
  /\ withdrawals[1].status = "pending"
  /\ users = BusyUsers


\* the unapproved Payment documents of an account
Outstanding(e) ==
  {p \in PayIds : payments[p].id # 0 /\ payments[p].userEmail = e
                  /\ ~payments[p].approved}

\* C22: a payment submission less than 24 hours after the account's
\* lastDepositAttempt, while the account has an unapproved payment, fails
\* with the 'already have a pending deposit' error, creates no payment and
\* leaves lastDepositAttempt as it was.
C22_ThrottledSubmissionRejected ==
  [][\A e \in MEmails, f \in MFridgeInputs :
       (/\ PaymentSubmit(e, f)
        /\ mUsers[e].email # ""
        /\ mUsers[e].lastDepositAttempt # -1
        /\ mNow - mUsers[e].lastDepositAttempt < 24
        /\ Outstanding(e) # {})
         => /\ mLast'.res = "You already have a pending deposit"
            /\ payments' = payments
            /\ nextPay' = nextPay
            /\ mUsers' = mUsers]_vars

\* a second submission was turned away while the first is still unapproved
C22_Witness ==
  /\ mLast.op = "payment"
  /\ mLast.res = "You already have a pending deposit"
  /\ Outstanding(mLast.email) # {}
  /\ mNow - mUsers[mLast.email].lastDepositAttempt < 24

\* C23: at every moment each account has at most one unapproved payment.
C23_OneOutstandingPayment ==
  \A e \in MEmails : Cardinality(Outstanding(e)) <= 1


\* the unapproved Withdrawal documents of an account
OutstandingWd(e) ==
  {w \in MWdIds : mWithdrawals[w].id # 0 /\ mWithdrawals[w].userEmail = e
                  /\ ~mWithdrawals[w].approved}

\* C24: /api/withdraw answers with the error of the first failing
\* precondition in the order minimum amount, pending withdrawal within the
\* cooldown, phone, weekday, earning; a failing request creates no
\* withdrawal record.
C24_FirstFailureWins ==
  [][\A e \in MEmails, p \in {"p1", "p2"}, x \in MWithdrawAmounts :
       LET inOrder ==
             IF x < 200 THEN "Invalid phone or amount"
             ELSE IF /\ mUsers[e].lastWithdrawalAttempt # -1
                     /\ mNow - mUsers[e].lastWithdrawalAttempt < 24
                     /\ OutstandingWd(e) # {}
               THEN "You already have a pending withdrawal"
             ELSE IF mUsers[e].phone # p
               THEN "Withdrawal phone must match registered phone"
             ELSE IF Weekend(mNow)
               THEN "Withdrawals are only allowed Monday to Friday"
             ELSE IF mUsers[e].earning < x THEN "Insufficient earnings"
             ELSE "Withdrawal request submitted"
       IN (MWithdraw(e, p, x) /\ mUsers[e].email # "")
            => /\ mLast'.res = inOrder
               /\ mLast'.res # "Withdrawal request submitted"
                    => mWithdrawals' = mWithdrawals]_vars

\* a failing /api/withdraw request creates no withdrawal record
C24_FailureCreatesNothing ==
  [][\A e \in MEmails, p \in {"", "p1", "p2"}, x \in MWithdrawAmounts :
       (MWithdraw(e, p, x) /\ mLast'.res # "Withdrawal request submitted")
         => mWithdrawals' = mWithdrawals]_vars


\* C25: after any admin lock and unlock calls, every catalog entry whose id
\* does not start with 'offer' has locked = false and its original price and
\* dailyEarn; a lock or unlock by the admin on such an id is answered
\* 'Invalid fridge' with the catalog unchanged.
C25_FixedEntriesStayUnlocked ==
  [][/\ \A f \in RegularIds :
          /\ catalog'[f].locked = FALSE
          /\ catalog'[f].price = MongoFRIDGES[f].price
          /\ catalog'[f].dailyEarn = MongoFRIDGES[f].dailyEarn
     /\ \A f \in MFridgeInputs \ OfferIds :
          (\/ AdminLock(TRUE, f)
           \/ \E x \in UnlockPrices, h \in UnlockHours :
                AdminUnlock(TRUE, f, x, 0, h))
            => /\ mLast'.res = "Invalid fridge"
               /\ catalog' = catalog]_vars

\* offer1 is unlocked and a later lock call was answered 'Invalid fridge'
C25_Witness ==
  /\ mLast.op = "lock" /\ mLast.res = "Invalid fridge"
  /\ ~catalog["offer1"].locked
  /\ catalog["100"] = Regular(100, 5)


\* ------------------------------------------------ src/index.js: an offer on sale
\* offer1 was unlocked at hour 9 (price 300, 12 hours) and account a has
\* submitted a payment for it
OfferCatalog ==
  [MongoFRIDGES EXCEPT !["offer1"] =
     [price |-> 300, dailyEarn |-> 0, durationHrs |-> 12, startTime |-> 9,
      locked |-> FALSE]]
OfferUsers == [SeedMUsers EXCEPT !["a"].lastDepositAttempt = 9]
OfferPayments ==
  [p \in PayIds |->
     IF p = 1
       THEN [id |-> 1, userEmail |-> "a", fridgeId |-> "offer1",
             approved |-> FALSE]
       ELSE NoPay]
InitOffer ==
  /\ InitStore /\ InitZ
  /\ serial = TRUE /\ darajaConfigured = FALSE /\ SIMULATE_MPESA = TRUE
  /\ mUsers = OfferUsers
  /\ offerCodes = SeedCodes
  /\ payments = OfferPayments
  /\ mWithdrawals = [w \in MWdIds |-> NoMWd]
  /\ catalog = OfferCatalog
  /\ mNow = 9
  /\ mTicks = 0
  /\ mOps = 0
  /\ nextPay = 2
  /\ nextMWd = 1
  /\ mLast = [op |-> "", email |-> "", id |-> 0, res |-> ""]
  /\ payouts = [e \in MEmails |-> 0]
  /\ rd = [t \in RdThreads |-> IdleRd]
NextOffer ==
  \/ MTick
  \/ \E adm \in BOOLEAN, f \in MFridgeInputs, x \in UnlockPrices,
        h \in UnlockHours : AdminUnlock(adm, f, x, 0, h)
  \/ \E adm \in BOOLEAN, f \in MFridgeInputs : AdminLock(adm, f)
  \/ \E e \in MEmails, f \in MFridgeInputs : PaymentSubmit(e, f)
  \/ \E act \in {"approve", "reject"}, id \in PayIds : TgPayment(act, id)
SpecOffer == InitOffer /\ [][NextOffer]_vars


\* what a run at time t adds for the holdings fs, read from the table as the
\* last lock or unlock left it: nothing for a locked entry
RECURSIVE TablePay(_, _)
TablePay(fs, t) ==
  IF fs = <<>> THEN 0
  ELSE LET entry == catalog[Head(fs).id]
           pay == IF Head(fs).id \in RegularIds THEN entry.dailyEarn
                  ELSE IF entry.locked THEN 0
                  ELSE IF entry.durationHrs # 0
                          /\ t >= entry.startTime + entry.durationHrs
                    THEN entry.price
                  ELSE 0
       IN pay + TablePay(Tail(fs), t)

\* the account may submit: it is registered and not held back by a pending
\* payment within the cooldown
MaySubmit(e) ==
  /\ mUsers[e].email # ""
  /\ ~(/\ mUsers[e].lastDepositAttempt # -1
       /\ mNow - mUsers[e].lastDepositAttempt < 24
       /\ Outstanding(e) # {})

Resolves(id) ==
  {e \in Emails : users[e].email # ""
                  /\ (users[e].email = id
                      \/ (users[e].phone # "" /\ users[e].phone = id))}

\* C27: no two accounts share an email or a non-null phone, so an identifier
\* resolves to at most one account.
C27_IdentifierUnique ==
  /\ \A e \in Emails : users[e].email \in {"", e}
  /\ \A id \in Emails \cup (PhoneInputs \ {""}) : Cardinality(Resolves(id)) <= 1


\* ------------------------------------------------ src/Index.js: overlapping handlers
\* both accounts hold fridges and requests arrive at any time
InitOverlap ==
  /\ users = BusyUsers
  /\ deposits = BusyDeposits
  /\ withdrawals = SeedWithdrawals
  /\ meta = [lastDailyRun |-> 0]
  /\ th = [t \in Threads |-> IdleTh]
  /\ last = NoResponse
  /\ darajaConfigured \in BOOLEAN
  /\ SIMULATE_MPESA \in BOOLEAN
  /\ now = 100
  /\ ticks = 0
  /\ ops = 0
  /\ nextDep = 3
  /\ nextWd = 2
  /\ credited = [d \in DepIds |-> IF d = 1 THEN 1 ELSE 0]
  /\ debited = [w \in WdIds |-> 0]
  /\ serial = FALSE
  /\ InitMongo /\ InitZ
\* the daily job, admin confirm, admin approve and buy, interleaved at their
\* awaits
NextOverlap ==
  \E t \in Threads :
    \/ StartCron(t) \/ CronUsers(t) \/ CronLoop(t) \/ CronSaveMeta(t)
    \/ \E d \in DepIds : StartConfirm(t, d)
    \/ AcWrite(t) \/ AcFindUser(t) \/ RefFind(t) \/ RefScan(t)
    \/ \E w \in WdIds : StartApprove(t, w)
    \/ ApFind(t) \/ ApWrite(t)
    \/ \E e \in Emails, f \in FridgeInputs : StartBuy(t, e, f)
    \/ PutRead(t) \/ PutWrite(t)
SpecOverlap == InitOverlap /\ [][NextOverlap]_vars

\* C28: a deposit confirmation that completes while the accrual job is
\* iterating is not overwritten by the job: once the job has finished and
\* deposit 2 (account b, 1000) has been credited, b's balance still holds
\* the deposit amount.
C28_DepositSurvivesAccrual ==
  (/\ Quiescent
   /\ ops = 2
   /\ credited[2] = 1
   /\ meta.lastDailyRun # 0)
    => users["b"].balance >= BusyUsers["b"].balance + 1000

\* C29: two operations on different accounts whose storage accesses
\* interleave both take effect: after the approval of withdrawal 1 (account
\* a, 300) and a buy of a 2ft fridge by account b, a's balance is debited and
\* b holds the fridge and has paid for it.
C29_BothTakeEffect ==
  (/\ Quiescent
   /\ ops = 2
   /\ debited[1] = 1
   /\ last.op = "buy" /\ last.email = "b" /\ last.res = "Bought")
    => /\ users["a"].balance = BusyUsers["a"].balance - 300
       /\ Len(users["b"].fridges) = 2


\* C30: a registration leaves every already existing account record
\* unchanged, also when other handlers update accounts between its read of
\* the users map and its write; a registration with a registered email is
\* rejected with the existing record unchanged.
C30_RegistrationKeepsOthers ==
  [][\A t \in Threads :
       /\ (th[t].pc = "RegWrite" /\ th'[t] # th[t])
            => \A e \in Emails \ {th[t].email} :
                 users[e].email # "" => users'[e] = users[e]
       /\ \A e \in Emails, p \in PhoneInputs, r \in RefInputs :
            (StartRegister(t, e, p, r) /\ users[e].email # "")
              => /\ last'.res = "User exists"
                 /\ users' = users]_vars


\* ------------------------------------------------ src/index.js: redeem, await by await
\* res.json(...) of a redeem handler
RdAnswer(t, email, res) ==
  /\ rd' = [rd EXCEPT ![t] = IdleRd]
  /\ mLast' = [op |-> "redeem", email |-> email, id |-> 0, res |-> res]

\* POST /api/offer/redeem up to the answer of User.findOne
RdStart(t, email, code) ==
  /\ rd[t].pc = "idle"
  /\ MCanStart
  /\ mOps' = mOps + 1
  /\ IF code = ""
       THEN RdAnswer(t, email, "No code provided")
       ELSE IF mUsers[email].email = ""
       THEN RdAnswer(t, email, "User not found")
       ELSE /\ rd' = [rd EXCEPT ![t] =
                        [pc |-> "FindOffer", email |-> email, code |-> code,
                         earning |-> mUsers[email].earning, amount |-> 0]]
            /\ UNCHANGED mLast
  /\ UNCHANGED <<mUsers, offerCodes, payments, mWithdrawals, catalog, mNow,
                 mTicks, nextPay, nextMWd, payouts>>
  /\ UNCHANGED <<pvars, zvars>>

\* the answer of OfferCode.findOne, the usedBy check, user.earning +=
\* offer.amount on the loaded document
RdFindOffer(t) ==
  /\ rd[t].pc = "FindOffer"
  /\ LET offer == IF rd[t].code \in Codes THEN offerCodes[rd[t].code]
                  ELSE NoCode
     IN IF offer.code = ""
          THEN RdAnswer(t, rd[t].email, "Invalid offer code")
          ELSE IF AlreadyRedeemed(offer, rd[t].email)
          THEN RdAnswer(t, rd[t].email, "You have already redeemed this code")
          ELSE /\ rd' = [rd EXCEPT ![t].pc = "SaveUser",
                                   ![t].earning = @ + offer.amount,
                                   ![t].amount = offer.amount]
               /\ UNCHANGED mLast
  /\ UNCHANGED <<mUsers, offerCodes, payments, mWithdrawals, catalog, mNow,
                 mTicks, mOps, nextPay, nextMWd, payouts>>
  /\ UNCHANGED <<pvars, zvars>>

\* await user.save(): the earning of the loaded document is written
RdSaveUser(t) ==
  /\ rd[t].pc = "SaveUser"
  /\ mUsers' = [mUsers EXCEPT ![rd[t].email].earning = rd[t].earning]
  /\ rd' = [rd EXCEPT ![t].pc = "SaveOffer"]
  /\ UNCHANGED <<offerCodes, payments, mWithdrawals, catalog, mNow, mTicks,
                 mOps, nextPay, nextMWd, mLast, payouts>>
  /\ UNCHANGED <<pvars, zvars>>

\* offer.usedBy.push(user.email); await offer.save(): the push is sent as an
\* append to the stored array
RdSaveOffer(t) ==
  /\ rd[t].pc = "SaveOffer"
  /\ offerCodes' = [offerCodes EXCEPT
                      ![rd[t].code].usedBy = Append(@, rd[t].email)]
  /\ RdAnswer(t, rd[t].email, "Offer code redeemed")
  /\ UNCHANGED <<mUsers, payments, mWithdrawals, catalog, mNow, mTicks,
                 mOps, nextPay, nextMWd, payouts>>
  /\ UNCHANGED <<pvars, zvars>>

NextRedeem ==
  \E t \in RdThreads :
    \/ \E e \in MEmails, c \in MCodeInputs : RdStart(t, e, c)
    \/ RdFindOffer(t) \/ RdSaveUser(t) \/ RdSaveOffer(t)
SpecRedeem == InitServers /\ [][NextRedeem]_vars

\* how often x occurs in the sequence s
RECURSIVE Occurrences(_, _)
Occurrences(s, x) ==
  IF s = <<>> THEN 0
  ELSE (IF Head(s) = x THEN 1 ELSE 0) + Occurrences(Tail(s), x)

\* C31: with /api/offer/redeem requests of one account for one code
\* interleaved at their awaits, the account's earning goes up by the code's
\* amount at most once (account b, code C1 of 500; account a has redeemed it
\* before) and the account is in usedBy at most once.
C31_ConcurrentRedeemOnce ==
  /\ mUsers["a"].earning = SeedMUsers["a"].earning
  /\ mUsers["b"].earning <= SeedMUsers["b"].earning + SeedCodes["C1"].amount
  /\ \A e \in MEmails : Occurrences(offerCodes["C1"].usedBy, e) <= 1


\* C32: for any sequence of /api/apply-offer calls of one account with the
\* code 'BITFREEZE' the earning goes up by the reward of 100 at most once;
\* nothing else in part_000 raises an earning.
C32_OfferAppliedOnce ==
  \A e \in ZEmails : zUsers[e].earning <= SeedZUsers[e].earning + 100


\* C33: every deposit request answered with a depositId has a persisted
\* record under that id, also when handlers read and write the deposits
\* mapping concurrently: once no handler is running, every id handed out by
\* recordDeposit has its record.
C33_NoDepositRecordLost ==
  Quiescent => \A d \in DepIds : d < nextDep => deposits[d].id = d


\* ------------------------------------------------ the balance as a ledger
RECURSIVE SumConfirmed(_, _)
\* the sum of the amounts of the confirmed deposits ds of account e
SumConfirmed(ds, e) ==
  IF ds = {} THEN 0
  ELSE LET d == CHOOSE x \in ds : TRUE
       IN (IF deposits[d].user = e /\ deposits[d].status = "confirmed"
             THEN deposits[d].amount ELSE 0)
          + SumConfirmed(ds \ {d}, e)

\* account e holds no fridge (so it bought none and the daily job credits
\* it nothing), no approve took anything from it and no account is referred
\* by it (so no reward went to it)
OnlyDeposits(e) ==
  /\ users[e].email # ""
  /\ users[e].fridges = <<>>
  /\ \A w \in WdIds : withdrawals[w].user = e => debited[w] = 0
  /\ \A r \in Emails : e \notin ReferrersOf(r)

\* C34: with the handlers run one after the other, whenever none is
\* running the balance of an account equals the sum of its confirmed
\* deposits plus its rewards and accrual credits minus the prices of its
\* fridges and its approved withdrawals; for an account with no reward,
\* credit, fridge or approved withdrawal that is the sum of its confirmed
\* deposits.
C34_BalanceIsLedger ==
  \A e \in Emails :
    (Quiescent /\ OnlyDeposits(e)) =>
      users[e].balance = SumConfirmed(DepIds, e)


\* C35: the reward applyReferral adds for a deposit goes to an account
\* other than the depositor, whatever 'ref' the depositor registered with.
C35_RewardGoesToAnother ==
  [][\A t \in Threads, e \in Emails :
       (InReferral(t) /\ users'[e].balance > users[e].balance)
         => e # th[t].email]_vars


\* C36: a payment adds at most one holding: 'approve_<id>' for a payment
\* that is already approved changes no account, and an approved payment
\* stays on record whatever button is pressed afterwards.
C36_PaymentAddsOneHolding ==
  [][\A id \in PayIds :
       (payments[id].id # 0 /\ payments[id].approved) =>
         /\ TgPayment("approve", id) => mUsers' = mUsers
         /\ payments'[id] = payments[id]]_vars


\* C37: a holding of an offer fridge is added only while the offer is
\* unlocked: approving a payment for an offer that is locked at the time of
\* the approval adds no holding.
C37_LockedOfferNotAdded ==
  [][\A id \in PayIds :
       (/\ payments[id].id # 0
        /\ payments[id].fridgeId \in OfferIds
        /\ catalog[payments[id].fridgeId].locked
        /\ TgPayment("approve", id))
         => mUsers' = mUsers]_vars


\* deposit d of account e was confirmed after the first request and every
\* other confirmed deposit of e is one the store already held confirmed:
\* d is the deposit of e confirmed last
NewestConfirmed(d, e) ==
  /\ deposits[d].user = e /\ deposits[d].status = "confirmed"
  /\ deposits[d] # SeedDeposits[d]
  /\ \A d2 \in DepIds \ {d} :
       (deposits[d2].user = e /\ deposits[d2].status = "confirmed")
         => deposits[d2] = SeedDeposits[d2]

\* C38: a withdrawal request passes the deposit-phone check only with the
\* phone of the account's most recently confirmed deposit, however that
\* deposit was confirmed.
C38_WithdrawalPhoneIsLatest ==
  [][\A t \in Threads, d \in DepIds :
       (/\ th[t].pc = "WdDeps" /\ th'[t].pc = "WdRead"
        /\ NewestConfirmed(d, th[t].email))
         => th[t].phone = deposits[d].phone]_vars


\* C39: with requests served one at a time, a purchase of a catalog fridge
\* of price P by a registered account
\* is refused with 'Insufficient balance', nothing written, when the
\* balance is below P; otherwise the one write of the request takes exactly
\* P from the balance and appends one holding of that fridge, the other
\* holdings, the other fields and the other accounts staying as they were.
C39_BuyChargesExactly ==
  [][/\ \A t \in Threads, e \in Emails, f \in FridgeInputs :
          (/\ StartBuy(t, e, f)
           /\ FridgeById(f).id # "" /\ users[e].email # "")
            => /\ users' = users
               /\ IF users[e].balance < FridgeById(f).price
                    THEN /\ th'[t] = IdleTh
                         /\ last' = [op |-> "buy", email |-> e, id |-> 0,
                                     res |-> "Insufficient balance"]
                    ELSE /\ th'[t].op = "buy"
                         /\ th'[t].u =
                              [users[e] EXCEPT
                                 !.balance = @ - FridgeById(f).price,
                                 !.fridges = Append(@, f)]
     /\ \A t \in Threads :
          (th[t].op = "buy" /\ th[t].pc = "PutWrite" /\ th'[t] # th[t])
            => LET e == th[t].email
                   f == th[t].u.fridges[Len(th[t].u.fridges)]
               IN /\ users' =
                       [users EXCEPT
                          ![e] = [@ EXCEPT
                                    !.balance = @ - FridgeById(f).price,
                                    !.fridges = Append(@, f)]]
                  /\ last'.op = "buy" /\ last'.res = "Bought"]_vars

\* C39 witness: account a bought the 4ft fridge with its whole balance and
\* its next purchase was refused for lack of balance.
C39_Witness ==
  /\ last = [op |-> "buy", email |-> "a", id |-> 0,
             res |-> "Insufficient balance"]
  /\ users["a"].fridges = <<"4ft">>
  /\ users["a"].balance = SeedUsers["a"].balance - FridgeById("4ft").price


\* ------------------------------------------------ errors in the accrual runs
\* Both servers with accounts that hold fridges; the daily job and the
\* interval run with storage calls that may reject, beside a purchase on
\* the first server and a redeem on the second.
SchedMUsers ==
  [SeedMUsers EXCEPT
     !["a"].fridges = <<[id |-> "2ft", price |-> 500, dailyEarn |-> 25]>>,
     !["b"].fridges = <<[id |-> "4ft", price |-> 1000, dailyEarn |-> 55]>>]
InitSched ==
  /\ users = BusyUsers
  /\ deposits = BusyDeposits
  /\ withdrawals = SeedWithdrawals
  /\ meta = [lastDailyRun |-> 0]
  /\ th = [t \in Threads |-> IdleTh]
  /\ last = NoResponse
  /\ darajaConfigured = FALSE
  /\ SIMULATE_MPESA = TRUE
  /\ serial = TRUE
  /\ now = 100
  /\ ticks = 0
  /\ ops = 0
  /\ nextDep = 3
  /\ nextWd = 2
  /\ credited = [d \in DepIds |-> IF d = 1 THEN 1 ELSE 0]
  /\ debited = [w \in WdIds |-> 0]
  /\ mUsers = SchedMUsers
  /\ offerCodes = SeedCodes
  /\ payments = [p \in PayIds |-> NoPay]
  /\ mWithdrawals = [w \in MWdIds |-> NoMWd]
  /\ catalog = MongoFRIDGES
  /\ mNow = 9
  /\ mTicks = 0
  /\ mOps = 0
  /\ nextPay = 1
  /\ nextMWd = 1
  /\ mLast = [op |-> "", email |-> "", id |-> 0, res |-> ""]
  /\ payouts = [e \in MEmails |-> 0]
  /\ rd = [t \in RdThreads |-> IdleRd]
  /\ InitZ
\* the steps of the daily job between its storage calls
JobStep(t) ==
  \/ CronUsers(t) \/ CronLoop(t) \/ PutRead(t) \/ PutWrite(t)
  \/ CronSaveMeta(t)
NextSched ==
  \/ Tick
  \/ \E t \in Threads :
       \/ StartCron(t)
       \/ \E e \in Emails, f \in FridgeInputs : StartBuy(t, e, f)
       \/ JobStep(t)
       \/ CronPutFails(t)
       \/ CronReadFails(t)
  \/ MTick
  \/ \E saved \in 0..1 : MRunFails(saved)
  \/ \E e \in MEmails, c \in MCodeInputs : OfferRedeem(e, c)
SpecSched == InitSched /\ [][NextSched]_vars

\* C40: an error inside an accrual run ends that run and nothing else. On
\* the first server a started job always has a next step, the step that
\* logs 'daily cron error' gives the handler slot back, and with the error
\* logged the job and a purchase can start again; on the second server the
\* interval goes on firing and requests go on being answered after
\* 'Daily earnings error'.
C40_SchedulerSurvivesErrors ==
  /\ [](\A t \in Threads :
          th[t].op = "cron" =>
            ENABLED (JobStep(t) \/ CronPutFails(t) \/ CronReadFails(t)))
  /\ [][\A t \in Threads :
          (CronPutFails(t) \/ CronReadFails(t))
            => (th'[t] = IdleTh /\ last'.res = "daily cron error")]_vars
  /\ []((last.res = "daily cron error" /\ Quiescent /\ ops < MaxOps) =>
          /\ ENABLED StartCron(1)
          /\ ENABLED StartBuy(1, "a", "2ft"))
  /\ [](mTicks < MaxMTicks => ENABLED MTick)
  /\ []((mLast.res = "Daily earnings error" /\ mOps < MaxMOps) =>
          ENABLED OfferRedeem("b", "C1"))

\* C40 witness: on the first server a job whose putUser of b failed was
\* followed by a job that ran to its end (a credited twice, b once); on the
\* second server the run of the second half day failed after the save of a
\* and the run of the fourth half day went through.
C40_Witness ==
  /\ last.op = "cron" /\ last.res = "Daily earnings applied"
  /\ users["a"].balance = BusyUsers["a"].balance + 50
  /\ users["b"].balance = BusyUsers["b"].balance + 55
  /\ mLast.res = "Daily earnings error" /\ mLast.id = 2
  /\ mTicks = 4
  /\ mUsers["a"].earning = SchedMUsers["a"].earning + 50
  /\ mUsers["b"].earning = SchedMUsers["b"].earning + 55

=============================================================================
